---- MODULE Spec2Model ----
(***************************************************************************)
(* Model of the export service of the mock-data API (package services,     *)
(* ExportService), of the helpers it renders cells with, and of the HTTP   *)
(* handler that exports a stored dataset (Handler.ExportMockData).         *)
(*                                                                         *)
(* Text is modelled at character level: a Go string or []byte is a         *)
(* sequence of one-character strings.  A Go slice that may be nil is a     *)
(* record [isNil, elems].  A cell (interface{}) is a tagged record:        *)
(*   [t |-> "nil"], [t |-> "string", s], [t |-> "bool", b],                *)
(*   [t |-> "float64", cls, neg, digs, dp], [t |-> "slice", elems].        *)
(* A finite float64 is given by its shortest decimal digits digs and the   *)
(* position dp of the decimal point (value 0.d1d2..dn * 10^dp), which is   *)
(* what strconv works on.  The floats of the model are those whose integer *)
(* part is exactly the padded digit string (every integer below 2^53, and  *)
(* the multiples of powers of ten the bounds allow).                       *)
(***************************************************************************)
EXTENDS Integers, Sequences, FiniteSets, TLC

VARIABLES
    goarch,      \* the build: decides the implementation-dependent int64(float64) results
    value,       \* argument of the cell helper called last
    fn,          \* cell helper called last ("none" before any call)
    str,         \* string returned by the cell helper
    data,        \* argument data []map[string]interface{} of the export calls
    fieldNames,  \* argument fieldNames []string of the export calls
    tableName,   \* argument tableName of ToSQL
    op,          \* export operation called last ("none" before any call and after a
                 \* request; "callerWrite" after the caller wrote into formats)
    out,         \* []byte returned by the export operation
    err,         \* error returned by the export operation ("" is nil)
    formats,     \* []string returned by GetAvailableFormats, in the caller's hands
    stored,      \* what the database gives ExportMockData for the request id
    query,       \* query parameters of the HTTP request handled last
    call,        \* export call ExportMockData made for that request
    resp,        \* HTTP response to that request
    threads,     \* export calls in progress, one per goroutine
    requests,    \* table generation_requests: the row with id n is requests[n]
    datasets,    \* table mock_datasets, in insertion order
    gens,        \* GenerateMockData handlers in progress
    getter,      \* the GetMockData handler in progress, between its two queries
    exportId,    \* the :id of the request whose dataset `stored` was read for
    reply,       \* response sent by the latest step of GenerateMockData or GetMockData
    openaiCalls  \* number of chat completions requested from OpenAI

vars == <<goarch, value, fn, str, data, fieldNames, tableName, op, out, err, formats,
          stored, query, call, resp, threads,
          requests, datasets, gens, getter, exportId, reply, openaiCalls>>

cellVars == <<value, fn, str>>
exportVars == <<data, fieldNames, tableName, op, out, err, formats>>
handlerVars == <<stored, query, call, resp>>
apiVars == <<requests, datasets, gens, getter, exportId, reply, openaiCalls>>

(***************************************************************************)
(* Bounds of the model.                                                    *)
(***************************************************************************)
MaxStrLen == 3     \* longest string cell of the cell-helper specification
MaxDigs == 2       \* most significant digits of a float64 cell
MaxDp == 21        \* largest decimal-point position of a float64 cell
MaxRows == 2       \* most rows of a dataset
MaxFields == 3     \* most fields of a field list
MaxCalls == 2      \* most export calls in progress at once
MaxRequests == 2   \* most rows of generation_requests
MaxHandlers == 1   \* most GenerateMockData handlers in progress at once

(***************************************************************************)
(* Generic sequence helpers.                                               *)
(***************************************************************************)
Min(a, b) == IF a < b THEN a ELSE b
Max(a, b) == IF a > b THEN a ELSE b

RECURSIVE Flatten(_)
Flatten(ss) == IF ss = <<>> THEN <<>> ELSE Head(ss) \o Flatten(Tail(ss))

RECURSIVE Repeat(_, _)
Repeat(c, n) == IF n <= 0 THEN <<>> ELSE <<c>> \o Repeat(c, n - 1)

RECURSIVE SeqsUpTo(_, _)
SeqsUpTo(S, n) ==
    IF n <= 0 THEN {<<>>}
    ELSE LET shorter == SeqsUpTo(S, n - 1)
         IN shorter \cup {Append(s, c) : s \in shorter, c \in S}

Nil == [t |-> "nil"]
Str(s) == [t |-> "string", s |-> s]
Bool(b) == [t |-> "bool", b |-> b]
Float(neg, digs, dp) == [t |-> "float64", cls |-> "fin", neg |-> neg, digs |-> digs, dp |-> dp]
NaN == [t |-> "float64", cls |-> "nan", neg |-> FALSE, digs |-> <<>>, dp |-> 0]
Inf(neg) == [t |-> "float64", cls |-> "inf", neg |-> neg, digs |-> <<>>, dp |-> 0]
Slice(elems) == [t |-> "slice", elems |-> elems]
Num(n) == Float(FALSE, <<n>>, 1)   \* float64(n) for a digit n in 1..9
Zero == Float(FALSE, <<>>, 0)

DigitChar(d) == <<"0", "1", "2", "3", "4", "5", "6", "7", "8", "9">>[d + 1]
DigitChars(ds) == [i \in 1..Len(ds) |-> DigitChar(ds[i])]

(***************************************************************************)
(* fmt and strconv, as formatValue and formatSQLValue use them.            *)
(***************************************************************************)
\* strconv fmtF: %f with prec fractional digits of the decimal digs/dp.
FmtF(neg, digs, dp, prec) ==
    LET nd == Len(digs)
        m == Min(nd, dp)
        intPart == IF dp > 0
                   THEN DigitChars(SubSeq(digs, 1, m)) \o Repeat("0", dp - m)
                   ELSE <<"0">>
        fracPart == IF prec > 0
                    THEN <<".">> \o [i \in 1..prec |->
                             LET j == dp + i - 1
                             IN IF 0 <= j /\ j < nd THEN DigitChar(digs[j + 1]) ELSE "0"]
                    ELSE <<>>
    IN (IF neg THEN <<"-">> ELSE <<>>) \o intPart \o fracPart

\* strconv fmtE: d.ddde+xx with prec fractional digits; cleanExp is the
\* exponent clean-up of encoding/json (e-07 becomes e-7).
FmtE(neg, digs, dp, prec, cleanExp) ==
    LET nd == Len(digs)
        first == IF nd # 0 THEN DigitChar(digs[1]) ELSE "0"
        m == Min(nd, prec + 1)
        more == IF prec > 0
                THEN <<".">> \o DigitChars(SubSeq(digs, 2, m)) \o Repeat("0", prec + 1 - Max(m, 1))
                ELSE <<>>
        e == IF nd = 0 THEN 0 ELSE dp - 1
        a == IF e < 0 THEN -e ELSE e
        expDigits == IF a < 10
                     THEN (IF cleanExp THEN <<>> ELSE <<"0">>) \o <<DigitChar(a)>>
                     ELSE <<DigitChar(a \div 10), DigitChar(a % 10)>>
    IN (IF neg THEN <<"-">> ELSE <<>>) \o <<first>> \o more
       \o <<"e", IF e < 0 THEN "-" ELSE "+">> \o expDigits

\* fmt.Sprintf("%v", v) of a float64: strconv 'g' with the shortest digits,
\* the exponent form when the decimal exponent is < -4 or >= 6
\* (fmt.Println(1000000.0) prints 1e+06).
GExpLimit == 6
FmtG(v) ==
    IF v.cls = "nan" THEN <<"N", "a", "N">>
    ELSE IF v.cls = "inf" THEN <<IF v.neg THEN "-" ELSE "+", "I", "n", "f">>
    ELSE LET nd == Len(v.digs)
             e == v.dp - 1
         IN IF e < -4 \/ e >= GExpLimit
            THEN FmtE(v.neg, v.digs, v.dp, nd - 1, FALSE)
            ELSE FmtF(v.neg, v.digs, v.dp, Max(nd - v.dp, 0))

\* fmt.Sprintf("%v", v) of any cell.
RECURSIVE FmtV(_)
FmtV(v) ==
    CASE v.t = "nil" -> <<"<", "n", "i", "l", ">">>
      [] v.t = "string" -> v.s
      [] v.t = "bool" -> IF v.b THEN <<"t", "r", "u", "e">> ELSE <<"f", "a", "l", "s", "e">>
      [] v.t = "float64" -> FmtG(v)
      [] v.t = "slice" ->
            <<"[">>
            \o Flatten([i \in 1..Len(v.elems) |->
                   (IF i > 1 THEN <<" ">> ELSE <<>>) \o FmtV(v.elems[i])])
            \o <<"]">>

(***************************************************************************)
(* int64 values are [neg, digs] with digs the decimal digits of the        *)
(* magnitude (no leading zero, <<>> for 0).                                *)
(***************************************************************************)
Int64(neg, digs) == [neg |-> neg, digs |-> digs]
MaxInt64 == Int64(FALSE, <<9,2,2,3,3,7,2,0,3,6,8,5,4,7,7,5,8,0,7>>)
MinInt64 == Int64(TRUE, <<9,2,2,3,3,7,2,0,3,6,8,5,4,7,7,5,8,0,8>>)
ZeroInt64 == Int64(FALSE, <<>>)

\* a <= b for digit sequences of equal length
RECURSIVE DigitsLeq(_, _)
DigitsLeq(a, b) ==
    IF a = <<>> THEN TRUE
    ELSE IF Head(a) # Head(b) THEN Head(a) < Head(b)
    ELSE DigitsLeq(Tail(a), Tail(b))

\* The integer part of a finite float64, truncated toward zero.
Trunc(v) ==
    IF v.dp <= 0 \/ v.digs = <<>> THEN ZeroInt64
    ELSE LET m == Min(Len(v.digs), v.dp)
         IN Int64(v.neg, SubSeq(v.digs, 1, m) \o Repeat(0, v.dp - m))

FitsInt64(i) ==
    LET lim == IF i.neg THEN MinInt64.digs ELSE MaxInt64.digs
    IN \/ Len(i.digs) < Len(lim)
       \/ Len(i.digs) = Len(lim) /\ DigitsLeq(i.digs, lim)

\* int64(v): the truncation when it fits; otherwise the result is
\* implementation-dependent: amd64 gives the integer indefinite value
\* (MinInt64), arm64 saturates (and gives 0 for NaN).
ConvInt64(v) ==
    IF v.cls = "fin" /\ FitsInt64(Trunc(v)) THEN Trunc(v)
    ELSE IF goarch = "amd64" THEN MinInt64
    ELSE IF v.cls = "nan" THEN ZeroInt64
    ELSE IF v.neg THEN MinInt64 ELSE MaxInt64

RECURSIVE StripZeros(_)
StripZeros(ds) ==
    IF ds # <<>> /\ ds[Len(ds)] = 0 THEN StripZeros(SubSeq(ds, 1, Len(ds) - 1)) ELSE ds

\* float64(i): exact for the truncations; MaxInt64 rounds to 2^63, whose
\* shortest digits are 9223372036854776 (as are those of -2^63).
ConvFloat64(i) ==
    IF i = MaxInt64 \/ i = MinInt64
    THEN Float(i.neg, <<9,2,2,3,3,7,2,0,3,6,8,5,4,7,7,6>>, 19)
    ELSE IF i.digs = <<>> THEN Zero
    ELSE Float(i.neg, StripZeros(i.digs), Len(i.digs))

\* v == w on float64: NaN equals nothing, -0 equals 0.
FloatEq(v, w) ==
    /\ v.cls # "nan" /\ w.cls # "nan"
    /\ v.cls = w.cls
    /\ \/ v.cls = "fin" /\ v.digs = <<>> /\ w.digs = <<>>
       \/ v.neg = w.neg /\ v.digs = w.digs /\ v.dp = w.dp

\* fmt.Sprintf("%d", i)
FmtD(i) ==
    IF i.digs = <<>> THEN <<"0">>
    ELSE (IF i.neg THEN <<"-">> ELSE <<>>) \o DigitChars(i.digs)


(***************************************************************************)
(* The cell helpers of the export service.                                 *)
(***************************************************************************)
\* formatValue converts any value to a string for CSV/Markdown
formatValue(v) ==
    IF v.t = "nil" THEN <<>>
    ELSE CASE v.t = "string" -> v.s
           [] v.t = "float64" ->
                IF FloatEq(v, ConvFloat64(ConvInt64(v)))
                THEN FmtD(ConvInt64(v))
                ELSE FmtV(v)
           [] OTHER -> FmtV(v)

\* Mutant of ReplaceAllQuotes: strings.Replace(s, "'", "''", 1), which doubles
\* the first quote only.
RECURSIVE ReplaceFirstQuote(_)
ReplaceFirstQuote(s) ==
    IF s = <<>> THEN <<>>
    ELSE IF Head(s) = "'" THEN <<"'", "'">> \o Tail(s)
    ELSE <<Head(s)>> \o ReplaceFirstQuote(Tail(s))

\* strings.ReplaceAll(s, "'", "''")
RECURSIVE ReplaceAllQuotes(_)
ReplaceAllQuotes(s) ==
    IF s = <<>> THEN <<>>
    ELSE (IF Head(s) = "'" THEN <<"'", "'">> ELSE <<Head(s)>>) \o ReplaceAllQuotes(Tail(s))

\* formatSQLValue formats a value for SQL INSERT statement
formatSQLValue(v) ==
    IF v.t = "nil" THEN <<"N", "U", "L", "L">>
    ELSE CASE v.t = "string" -> <<"'">> \o ReplaceAllQuotes(v.s) \o <<"'">>
           [] v.t = "float64" ->
                IF FloatEq(v, ConvFloat64(ConvInt64(v)))
                THEN FmtD(ConvInt64(v))
                ELSE FmtV(v)
           [] v.t = "bool" ->
                IF v.b THEN <<"T", "R", "U", "E">> ELSE <<"F", "A", "L", "S", "E">>
           [] OTHER -> <<"'">> \o FmtV(v) \o <<"'">>

\* Mutant of inferSQLType: the bool case is missing, so a boolean column is
\* declared TEXT.
inferSQLTypeNoBool(v) ==
    IF v.t = "float64" THEN <<"N", "U", "M", "E", "R", "I", "C">> ELSE <<"T", "E", "X", "T">>

\* inferSQLType infers SQL column type from a value
inferSQLType(v) ==
    IF v.t = "nil" THEN <<"T", "E", "X", "T">>
    ELSE CASE v.t = "float64" -> <<"N", "U", "M", "E", "R", "I", "C">>
           [] v.t = "bool" -> <<"B", "O", "O", "L", "E", "A", "N">>
           [] v.t = "string" -> <<"T", "E", "X", "T">>
           [] OTHER -> <<"T", "E", "X", "T">>

(***************************************************************************)
(* The cells of the cell-helper specification: every string over           *)
(* StrAlphabet up to MaxStrLen, every float64 with up to MaxDigs digits    *)
(* of DigitAlphabet and a decimal point in -6..MaxDp, and one or more      *)
(* cells of every other kind.                                              *)
(***************************************************************************)
StrAlphabet == {"a", "'", "\\", "\n"}
DigitAlphabet == {1, 2, 4}
GoArchs == {"amd64", "arm64"}

FloatCells ==
    {Float(neg, ds, dp) : neg \in BOOLEAN,
                          ds \in SeqsUpTo(DigitAlphabet, MaxDigs) \ {<<>>},
                          dp \in (0 - 6)..MaxDp}
    \cup {Float(FALSE, <<>>, 0), Float(TRUE, <<>>, 0), NaN, Inf(FALSE), Inf(TRUE)}

OtherCells ==
    {Slice(<<>>), Slice(<<Str(<<"a">>), Num(1)>>), Slice(<<Nil, Str(<<"'", ")">>)>>)}

Cells ==
    {Nil, Bool(TRUE), Bool(FALSE)}
    \cup {Str(s) : s \in SeqsUpTo(StrAlphabet, MaxStrLen)}
    \cup {Str(<<"i", "t", "'", "s">>), Str(<<"h", "e", "l", "l", "o">>)}
    \cup FloatCells
    \cup {Float(FALSE, <<4, 2>>, 2), Float(FALSE, <<3, 1, 4>>, 1)}
    \cup OtherCells

\* The arguments the export specification holds while the cell helpers run.
NilSlice == [isNil |-> TRUE, elems |-> <<>>]
MkSlice(elems) == [isNil |-> FALSE, elems |-> elems]

\* A query parameter: absent, or present with a value.
Absent == [has |-> FALSE, v |-> <<>>]
Param(v) == [has |-> TRUE, v |-> v]

\* The state of the HTTP side while no request has been handled, and of the
\* goroutines while none runs.
NoStored == [status |-> "norows", dataJSON |-> <<>>, fieldNames |-> NilSlice]
NoQuery == [format |-> Absent, table |-> Absent]
NoCall ==
    [name |-> "none", data |-> NilSlice, fieldNames |-> NilSlice, tableName |-> <<>>,
     out |-> NilSlice, err |-> ""]
NoResponse ==
    [status |-> 0, error |-> "", message |-> <<>>, body |-> NilSlice,
     contentType |-> "", filename |-> <<>>]

HandlerIdle ==
    /\ stored = NoStored
    /\ query = NoQuery
    /\ call = NoCall
    /\ resp = NoResponse

ThreadsIdle == threads = <<>>

\* No response, of GenerateMockData or of GetMockData.  A response is
\* [handler, id, status, error, message, state, hasData, data, fieldNames],
\* with req the request body it answers when the body was parsed.  A
\* record with status 0 and a req is the body GenerateMockData has just
\* accepted, to which no response is sent yet.
NoReply ==
    [handler |-> "none", id |-> 0, status |-> 0, error |-> "", message |-> "", state |-> "",
     hasData |-> FALSE, data |-> NilSlice, fieldNames |-> NilSlice,
     req |-> [scenario |-> <<>>, rowCount |-> 0]]

NoGetter == [pc |-> "idle", id |-> 0]

\* The API specification's variables while another specification runs.
ApiIdle ==
    /\ requests = <<>>
    /\ datasets = <<>>
    /\ gens = <<>>
    /\ getter = NoGetter
    /\ exportId = 0
    /\ reply = NoReply
    /\ openaiCalls = 0

ExportIdle ==
    /\ data = NilSlice
    /\ fieldNames = NilSlice
    /\ tableName = <<>>
    /\ op = "none"
    /\ out = NilSlice
    /\ err = ""
    /\ formats = NilSlice

CellInit ==
    /\ goarch \in GoArchs
    /\ value \in Cells
    /\ fn = "none"
    /\ str = <<>>
    /\ ExportIdle
    /\ HandlerIdle
    /\ ThreadsIdle
    /\ ApiIdle

CallFormatValue ==
    /\ fn' = "formatValue"
    /\ str' = formatValue(value)
    /\ UNCHANGED <<goarch, value, exportVars, handlerVars, threads, apiVars>>

CallFormatSQLValue ==
    /\ fn' = "formatSQLValue"
    /\ str' = formatSQLValue(value)
    /\ UNCHANGED <<goarch, value, exportVars, handlerVars, threads, apiVars>>

CallInferSQLType ==
    /\ fn' = "inferSQLType"
    /\ str' = inferSQLType(value)
    /\ UNCHANGED <<goarch, value, exportVars, handlerVars, threads, apiVars>>

CellNext == CallFormatValue \/ CallFormatSQLValue \/ CallInferSQLType

CellSpec == CellInit /\ [][CellNext]_vars


(***************************************************************************)
(* Claims about the cell helpers (checked under CellSpec).                 *)
(***************************************************************************)
\* A float64 cell whose value is mathematically an integer.
IsIntegral(v) == v.t = "float64" /\ v.cls = "fin" /\ Len(v.digs) <= v.dp + (IF v.digs = <<>> THEN 1 ELSE 0)

\* The decimal digits of an integral float64: sign, digits, padding zeros.
IntegerDigits(v) ==
    IF v.digs = <<>> THEN <<"0">>
    ELSE (IF v.neg THEN <<"-">> ELSE <<>>)
         \o DigitChars(v.digs) \o [i \in 1..(v.dp - Len(v.digs)) |-> "0"]

\* What the claims expect formatValue to return.
ExpectedFormatValue(v) ==
    CASE v.t = "nil" -> <<>>
      [] v.t = "string" -> v.s
      [] v.t = "float64" -> IF IsIntegral(v) THEN IntegerDigits(v) ELSE FmtG(v)
      [] v.t = "bool" -> IF v.b THEN <<"t", "r", "u", "e">> ELSE <<"f", "a", "l", "s", "e">>
      [] OTHER -> FmtV(v)

\* C5: formatValue maps null to the empty string, a string to itself, an
\* integral number to its integer digits, any other number to its default
\* decimal form, a boolean to true or false and any other type to its
\* default string representation.
C5_FormatValueMapping ==
    fn = "formatValue" => str = ExpectedFormatValue(value)

\* C6: every numeric cell that is mathematically an integer, of any magnitude,
\* is rendered by formatValue and by formatSQLValue as that integer's decimal
\* digits, with no decimal point, fraction or exponent.
C6_IntegralRendersAsInteger ==
    (fn \in {"formatValue", "formatSQLValue"} /\ IsIntegral(value))
        => str = IntegerDigits(value)

\* What the claims expect formatSQLValue to return.
ExpectedFormatSQLValue(v) ==
    CASE v.t = "nil" -> <<"N", "U", "L", "L">>
      [] v.t = "string" ->
            <<"'">>
            \o Flatten([i \in 1..Len(v.s) |-> IF v.s[i] = "'" THEN <<"'", "'">> ELSE <<v.s[i]>>])
            \o <<"'">>
      [] v.t = "float64" -> IF IsIntegral(v) THEN IntegerDigits(v) ELSE FmtG(v)
      [] v.t = "bool" -> IF v.b THEN <<"T", "R", "U", "E">> ELSE <<"F", "A", "L", "S", "E">>
      [] OTHER -> <<"'">> \o FmtV(v) \o <<"'">>

\* C7: formatSQLValue maps null to NULL, a string to its quote-doubled text
\* in single quotes, an integral number to an unquoted integer literal, a
\* fractional number to an unquoted decimal literal, a boolean to TRUE or
\* FALSE, and any other type to its default string form in single quotes.
C7_FormatSQLValueMapping ==
    fn = "formatSQLValue" => str = ExpectedFormatSQLValue(value)

\* Reads a quote-doubled text back: every pair of quotes is one quote; a
\* quote that has no partner makes the text ill-formed.
RECURSIVE Undouble(_)
Undouble(t) ==
    IF t = <<>> THEN [ok |-> TRUE, s |-> <<>>]
    ELSE IF Head(t) = "'"
         THEN IF Len(t) >= 2 /\ t[2] = "'"
              THEN LET r == Undouble(SubSeq(t, 3, Len(t)))
                   IN [ok |-> r.ok, s |-> <<"'">> \o r.s]
              ELSE [ok |-> FALSE, s |-> <<>>]
         ELSE LET r == Undouble(Tail(t))
              IN [ok |-> r.ok, s |-> <<Head(t)>> \o r.s]

NumQuotes(s) == Cardinality({i \in 1..Len(s) : s[i] = "'"})

\* C8: for a string cell s, formatSQLValue(s) is a quote, s with every quote
\* doubled, and a quote: the text between the outer quotes holds quotes only
\* in adjacent pairs, and replacing each pair by one quote gives s back
\* (it's renders as 'it''s').
C8_QuoteDoubling ==
    (fn = "formatSQLValue" /\ value.t = "string") =>
        /\ Len(str) = Len(value.s) + NumQuotes(value.s) + 2
        /\ str[1] = "'" /\ str[Len(str)] = "'"
        /\ LET inner == Undouble(SubSeq(str, 2, Len(str) - 1))
           IN inner.ok /\ inner.s = value.s
        /\ value.s = <<"i", "t", "'", "s">> => str = <<"'", "i", "t", "'", "'", "s", "'">>

C8_Witness ==
    /\ fn = "formatSQLValue"
    /\ value = Str(<<"i", "t", "'", "s">>)
    /\ str = <<"'", "i", "t", "'", "'", "s", "'">>


(***************************************************************************)
(* The export operations.  A row (map[string]interface{}) is a function    *)
(* from its keys to cells; an operation returns [out, err].                *)
(***************************************************************************)
\* Mutant of Lookup: a missing key reads as the empty string.
LookupMissingAsEmpty(row, field) == IF field \in DOMAIN row THEN row[field] ELSE Str(<<>>)

\* row[field]: a missing key reads as the nil interface value
Lookup(row, field) == IF field \in DOMAIN row THEN row[field] ELSE Nil

\* strings.Join(parts, sep)
Join(parts, sep) ==
    Flatten([i \in 1..Len(parts) |-> (IF i > 1 THEN sep ELSE <<>>) \o parts[i]])

Ok(bytes) == [out |-> MkSlice(bytes), err |-> ""]
Fail(msg) == [out |-> NilSlice, err |-> msg]

\* csv.Writer.fieldNeedsQuotes with the default Comma
FieldNeedsQuotes(field) ==
    IF field = <<>> THEN FALSE
    ELSE IF field = <<"\\", ".">> THEN TRUE
    ELSE \/ \E i \in 1..Len(field) : field[i] \in {"\n", "\r", "\"", ","}
         \/ field[1] \in {" ", "\t"}

\* The quoted form of a field: quotes are doubled, line breaks are kept
\* (UseCRLF is false).
CsvQuoted(field) ==
    <<"\"">>
    \o Flatten([i \in 1..Len(field) |->
           IF field[i] = "\"" THEN <<"\"", "\"">> ELSE <<field[i]>>])
    \o <<"\"">>

CsvField(field) == IF FieldNeedsQuotes(field) THEN CsvQuoted(field) ELSE field

\* csv.Writer.Write(record): the bytes one record adds to the buffer.  The
\* writer is over a bytes.Buffer and its Comma is valid, so Write, Flush
\* and Error never report an error.
CsvWrite(record) ==
    Flatten([n \in 1..Len(record) |->
        (IF n > 1 THEN <<",">> ELSE <<>>) \o CsvField(record[n])])
    \o <<"\n">>

\* The values of one row in field order, through a cell helper.
RowValuesCSV(row, names) == [i \in 1..Len(names) |-> formatValue(Lookup(row, names[i]))]
RowValuesSQL(row, names) == [i \in 1..Len(names) |-> formatSQLValue(Lookup(row, names[i]))]

\* Mutant of CsvRows: the data rows are written last row first.
RECURSIVE CsvRowsReversed(_, _)
CsvRowsReversed(rows, names) ==
    IF rows = <<>> THEN <<>>
    ELSE CsvRowsReversed(Tail(rows), names) \o CsvWrite(RowValuesCSV(Head(rows), names))

\* for _, row := range data { ... writer.Write(values) }
RECURSIVE CsvRows(_, _)
CsvRows(rows, names) ==
    IF rows = <<>> THEN <<>>
    ELSE CsvWrite(RowValuesCSV(Head(rows), names)) \o CsvRows(Tail(rows), names)

NoData == "no data to export"

\* Mutant of ToCSV: the empty-dataset check is missing, so an empty dataset
\* exports its header.
ToCSVHeaderOnly(d, f) == Ok(CsvWrite(f.elems) \o CsvRows(d.elems, f.elems))

ToCSV(d, f) ==
    IF Len(d.elems) = 0 THEN Fail(NoData)
    ELSE Ok(CsvWrite(f.elems) \o CsvRows(d.elems, f.elems))

RECURSIVE MarkdownRows(_, _)
MarkdownRows(rows, names) ==
    IF rows = <<>> THEN <<>>
    ELSE <<"|", " ">> \o Join(RowValuesCSV(Head(rows), names), <<" ", "|", " ">>)
         \o <<" ", "|", "\n">> \o MarkdownRows(Tail(rows), names)

ToMarkdownTable(d, f) ==
    IF Len(d.elems) = 0 THEN Fail(NoData)
    ELSE Ok(<<"|", " ">> \o Join(f.elems, <<" ", "|", " ">>) \o <<" ", "|", "\n">>
            \o <<"|">>
            \o Flatten([i \in 1..Len(f.elems) |-> <<"-", "-", "-", "-", "-", "-", "-", "-", "|">>])
            \o <<"\n">>
            \o MarkdownRows(d.elems, f.elems))

\* Mutant of DefaultTable: another default name.
DefaultTableData == <<"d", "a", "t", "a">>

DefaultTable == <<"m", "o", "c", "k", "_", "d", "a", "t", "a">>

\* The column lines of CREATE TABLE, types inferred from the first row.
SqlColumns(firstRow, names) ==
    Flatten([i \in 1..Len(names) |->
        <<" ", " ">> \o names[i] \o <<" ">> \o inferSQLType(Lookup(firstRow, names[i]))
        \o (IF i - 1 < Len(names) - 1 THEN <<",">> ELSE <<>>)
        \o <<"\n">>])

\* Mutant of SqlInserts: only the first row is inserted.
SqlInsertsFirstOnly(rows, names, table) ==
    IF rows = <<>> THEN <<>>
    ELSE <<"I", "N", "S", "E", "R", "T", " ", "I", "N", "T", "O", " ">> \o table
         \o <<" ", "(">> \o Join(names, <<",", " ">>)
         \o <<")", " ", "V", "A", "L", "U", "E", "S", " ", "(">>
         \o Join(RowValuesSQL(Head(rows), names), <<",", " ">>)
         \o <<")", ";", "\n">>

RECURSIVE SqlInserts(_, _, _)
SqlInserts(rows, names, table) ==
    IF rows = <<>> THEN <<>>
    ELSE <<"I", "N", "S", "E", "R", "T", " ", "I", "N", "T", "O", " ">> \o table
         \o <<" ", "(">> \o Join(names, <<",", " ">>)
         \o <<")", " ", "V", "A", "L", "U", "E", "S", " ", "(">>
         \o Join(RowValuesSQL(Head(rows), names), <<",", " ">>)
         \o <<")", ";", "\n">>
         \o SqlInserts(Tail(rows), names, table)

\* Mutant of ToSQL: the column types are inferred from the last row.
ToSQLTypesFromLastRow(d, f, t) ==
    IF Len(d.elems) = 0 THEN Fail(NoData)
    ELSE LET table == IF t = <<>> THEN DefaultTable ELSE t
         IN Ok(<<"-", "-", " ", "G", "e", "n", "e", "r", "a", "t", "e", "d", " ", "d", "a", "t", "a", "\n">>
               \o <<"-", "-", " ", "T", "a", "b", "l", "e", ":", " ">> \o table \o <<"\n", "\n">>
               \o <<"C", "R", "E", "A", "T", "E", " ", "T", "A", "B", "L", "E", " ",
                    "I", "F", " ", "N", "O", "T", " ", "E", "X", "I", "S", "T", "S", " ">>
               \o table \o <<" ", "(", "\n">>
               \o SqlColumns(d.elems[Len(d.elems)], f.elems)
               \o <<")", ";", "\n", "\n">>
               \o SqlInserts(d.elems, f.elems, table))

ToSQL(d, f, t) ==
    IF Len(d.elems) = 0 THEN Fail(NoData)
    ELSE LET table == IF t = <<>> THEN DefaultTable ELSE t
         IN Ok(<<"-", "-", " ", "G", "e", "n", "e", "r", "a", "t", "e", "d", " ", "d", "a", "t", "a", "\n">>
               \o <<"-", "-", " ", "T", "a", "b", "l", "e", ":", " ">> \o table \o <<"\n", "\n">>
               \o <<"C", "R", "E", "A", "T", "E", " ", "T", "A", "B", "L", "E", " ",
                    "I", "F", " ", "N", "O", "T", " ", "E", "X", "I", "S", "T", "S", " ">>
               \o table \o <<" ", "(", "\n">>
               \o SqlColumns(d.elems[1], f.elems)
               \o <<")", ";", "\n", "\n">>
               \o SqlInserts(d.elems, f.elems, table))


(***************************************************************************)
(* encoding/json, as ToJSON uses it.  The value marshalled is a tree of    *)
(* cells, maps ([t |-> "map", m]), ints ([t |-> "int", n]) and slices; a   *)
(* nil slice is [t |-> "nilslice"].                                        *)
(***************************************************************************)
\* The characters of the model in byte order (sort.Strings and the key
\* order of a marshalled map compare strings bytewise).
Ascii ==
  <<"\t", "\n", "\r", " ", "!", "\"", "&", "'", "(", ")", ",", "-", ".", "0", "1", "2",
     "3", "4", "5", "6", "7", "8", "9", ":", ";", "<", ">", "A", "B", "C", "D", "E",
     "F", "G", "H", "I", "J", "K", "L", "M", "N", "O", "P", "Q", "R", "S", "T", "U",
     "V", "W", "X", "Y", "Z", "[", "\\", "]", "_", "a", "b", "c", "d", "e", "f", "g",
     "h", "i", "j", "k", "l", "m", "n", "o", "p", "q", "r", "s", "t", "u", "v", "w",
     "x", "y", "z", "{", "|", "}">>

Rank(c) == CHOOSE i \in 1..Len(Ascii) : Ascii[i] = c

RECURSIVE StrLess(_, _)
StrLess(a, b) ==
    IF b = <<>> THEN FALSE
    ELSE IF a = <<>> THEN TRUE
    ELSE IF Head(a) # Head(b) THEN Rank(Head(a)) < Rank(Head(b))
    ELSE StrLess(Tail(a), Tail(b))

\* The strings of a finite set in ascending order.
RECURSIVE SortedSeq(_)
SortedSeq(S) ==
    IF S = {} THEN <<>>
    ELSE LET m == CHOOSE x \in S : \A y \in S : ~StrLess(y, x)
         IN <<m>> \o SortedSeq(S \ {m})

\* Mutant of SortStrings: the list is left in the order written.
SortStringsNoOp(ss) == ss

\* sort.Strings(ss)
SortStrings(ss) == SortedSeq({ss[i] : i \in 1..Len(ss)})

RECURSIVE NatChars(_)
NatChars(n) == IF n < 10 THEN <<DigitChar(n)>> ELSE NatChars(n \div 10) \o <<DigitChar(n % 10)>>

\* A JSON string literal, with the HTML-safe escaping json.Marshal applies.
JsonString(s) ==
    <<"\"">>
    \o Flatten([i \in 1..Len(s) |->
           CASE s[i] = "\"" -> <<"\\", "\"">>
             [] s[i] = "\\" -> <<"\\", "\\">>
             [] s[i] = "\n" -> <<"\\", "n">>
             [] s[i] = "\r" -> <<"\\", "r">>
             [] s[i] = "\t" -> <<"\\", "t">>
             [] s[i] = "<" -> <<"\\", "u", "0", "0", "3", "c">>
             [] s[i] = ">" -> <<"\\", "u", "0", "0", "3", "e">>
             [] s[i] = "&" -> <<"\\", "u", "0", "0", "2", "6">>
             [] OTHER -> <<s[i]>>])
    \o <<"\"">>

\* floatEncoder: %f, or %e with a cleaned exponent below 1e-6 and from 1e21.
JsonExpLimit == 21
JsonFloat(v) ==
    LET nd == Len(v.digs)
        e == v.dp - 1
    IN IF nd # 0 /\ (e < 0 - 6 \/ e >= JsonExpLimit)
       THEN FmtE(v.neg, v.digs, v.dp, nd - 1, TRUE)
       ELSE FmtF(v.neg, v.digs, v.dp, Max(nd - v.dp, 0))

\* json.Marshal fails with UnsupportedValueError on NaN and the infinities.
RECURSIVE JsonUnsupported(_)
JsonUnsupported(v) ==
    CASE v.t = "float64" -> v.cls # "fin"
      [] v.t = "slice" -> \E i \in 1..Len(v.elems) : JsonUnsupported(v.elems[i])
      [] v.t = "map" -> \E k \in DOMAIN v.m : JsonUnsupported(v.m[k])
      [] OTHER -> FALSE

Indent(depth) == <<"\n">> \o Repeat(" ", 2 * depth)

\* json.MarshalIndent(v, "", "  ") of a value at nesting depth `depth`.
RECURSIVE EncJSON(_, _)
EncJSON(v, depth) ==
    CASE v.t \in {"nil", "nilslice"} -> <<"n", "u", "l", "l">>
      [] v.t = "bool" -> IF v.b THEN <<"t", "r", "u", "e">> ELSE <<"f", "a", "l", "s", "e">>
      [] v.t = "string" -> JsonString(v.s)
      [] v.t = "float64" -> JsonFloat(v)
      [] v.t = "int" -> NatChars(v.n)
      [] v.t = "slice" ->
            IF v.elems = <<>> THEN <<"[", "]">>
            ELSE <<"[">> \o Indent(depth + 1)
                 \o Join([i \in 1..Len(v.elems) |-> EncJSON(v.elems[i], depth + 1)],
                         <<",">> \o Indent(depth + 1))
                 \o Indent(depth) \o <<"]">>
      [] v.t = "map" ->
            LET keys == SortedSeq(DOMAIN v.m)
            IN IF keys = <<>> THEN <<"{", "}">>
               ELSE <<"{">> \o Indent(depth + 1)
                    \o Join([i \in 1..Len(keys) |->
                                JsonString(keys[i]) \o <<":", " ">>
                                \o EncJSON(v.m[keys[i]], depth + 1)],
                            <<",">> \o Indent(depth + 1))
                    \o Indent(depth) \o <<"}">>

Map(m) == [t |-> "map", m |-> m]

\* A []T argument as a value to marshal: null when the slice is nil.
RowsValue(d) ==
    IF d.isNil THEN [t |-> "nilslice"]
    ELSE Slice([i \in 1..Len(d.elems) |-> Map(d.elems[i])])

NamesValue(f) ==
    IF f.isNil THEN [t |-> "nilslice"]
    ELSE Slice([i \in 1..Len(f.elems) |-> Str(f.elems[i])])

ToJSON(d, f) ==
    LET response ==
            Map((<<"f", "i", "e", "l", "d", "s">> :> NamesValue(f))
                @@ (<<"d", "a", "t", "a">> :> RowsValue(d))
                @@ (<<"c", "o", "u", "n", "t">> :> [t |-> "int", n |-> Len(d.elems)]))
    IN IF JsonUnsupported(response)
       THEN Fail("failed to marshal JSON")
       ELSE Ok(EncJSON(response, 0))

\* GetAvailableFormats: the literal list, sorted.
GetAvailableFormats ==
    MkSlice(SortStrings(<< <<"j", "s", "o", "n">>, <<"c", "s", "v">>,
                           <<"m", "a", "r", "k", "d", "o", "w", "n">>, <<"s", "q", "l">> >>))


(***************************************************************************)
(* The datasets of the export specification: up to MaxRows rows of the row *)
(* catalogue (or the nil slice), with a prefix of up to MaxFields names of *)
(* a field list of the catalogue (or the nil slice).                       *)
(***************************************************************************)
kId == <<"i", "d">>
kName == <<"n", "a", "m", "e">>
kAge == <<"a", "g", "e">>
kActive == <<"a", "c", "t", "i", "v", "e">>
kComma == <<"a", ",", "b">>
kQuote == <<"q", "\"", "\n">>
kEmpty == <<>>

John == <<"J", "o", "h", "n">>
Jane == <<"J", "a", "n", "e">>

RowJohn == (kId :> Num(1)) @@ (kName :> Str(John)) @@ (kAge :> Float(FALSE, <<3>>, 2))
RowJane == (kId :> Num(2)) @@ (kName :> Str(Jane)) @@ (kAge :> Float(FALSE, <<2, 5>>, 2))
RowActive == (kId :> Num(1)) @@ (kName :> Str(John)) @@ (kActive :> Bool(TRUE))
\* a null, an empty string, a fraction, false; no key "a,b"
RowSparse ==
    (kId :> Nil) @@ (kName :> Str(<<>>)) @@ (kAge :> Float(FALSE, <<3, 1, 4>>, 1))
    @@ (kActive :> Bool(FALSE))
\* an integer beyond int64, a string with a quote, a comma, a line break and
\* a bar, a nested array, and values under the unusual field names
RowOdd ==
    (kId :> Float(FALSE, <<1>>, 20))
    @@ (kName :> Str(<<"i", "t", "'", "s", ",", "\"", "<", "\n", "|", "x">>))
    @@ (kAge :> Slice(<<Str(<<"a">>), Num(1)>>))
    @@ (kComma :> Float(TRUE, <<1, 5>>, 1))
    @@ (kEmpty :> Str(<<" ", "y">>))
\* a value encoding/json cannot marshal
RowNaN == (kId :> Num(4)) @@ (kName :> Str(<<"n">>)) @@ (kAge :> NaN)

RowCatalogue == {RowJohn, RowJane, RowActive, RowSparse, RowOdd, RowNaN}

FieldCatalogue ==
    { <<kId, kName, kAge, kActive>>,
      <<kId, kName, kActive, kAge>>,
      <<kName, kComma, kQuote, kId>>,
      <<kEmpty, kId, kComma, kName>> }

Datasets == {NilSlice} \cup {MkSlice(rows) : rows \in SeqsUpTo(RowCatalogue, MaxRows)}

FieldLists ==
    {NilSlice}
    \cup {MkSlice(SubSeq(names, 1, n)) : names \in FieldCatalogue, n \in 0..Min(MaxFields, 4)}

TableNames == {<<>>, <<"u", "s", "e", "r", "s">>}

CellIdle ==
    /\ value = Nil
    /\ fn = "none"
    /\ str = <<>>

Init ==
    /\ goarch \in GoArchs
    /\ data \in Datasets
    /\ fieldNames \in FieldLists
    /\ tableName \in TableNames
    /\ op = "none"
    /\ out = NilSlice
    /\ err = ""
    /\ formats = NilSlice
    /\ CellIdle
    /\ HandlerIdle
    /\ ThreadsIdle
    /\ ApiIdle

\* Mutant of Return: the call has sorted the caller's field list in place.
ReturnSortsFields(name, r) ==
    /\ op' = name
    /\ out' = r.out
    /\ err' = r.err
    /\ fieldNames' = [fieldNames EXCEPT !.elems = SortStrings(@)]
    /\ query' = NoQuery
    /\ call' = NoCall
    /\ resp' = NoResponse
    /\ UNCHANGED <<goarch, data, tableName, formats, cellVars, stored, threads, apiVars>>

\* A direct call of an export method returns.  The state keeps the latest
\* step only: the record of an HTTP exchange made before is cleared.
Return(name, r) ==
    /\ op' = name
    /\ out' = r.out
    /\ err' = r.err
    /\ query' = NoQuery
    /\ call' = NoCall
    /\ resp' = NoResponse
    /\ UNCHANGED <<goarch, data, fieldNames, tableName, formats, cellVars, stored, threads, apiVars>>

CallToJSON == Return("ToJSON", ToJSON(data, fieldNames))

CallToCSV == Return("ToCSV", ToCSV(data, fieldNames))

CallToMarkdownTable == Return("ToMarkdownTable", ToMarkdownTable(data, fieldNames))

CallToSQL == Return("ToSQL", ToSQL(data, fieldNames, tableName))

CallGetAvailableFormats ==
    /\ op' = "GetAvailableFormats"
    /\ formats' = GetAvailableFormats
    /\ out' = NilSlice
    /\ err' = ""
    /\ query' = NoQuery
    /\ call' = NoCall
    /\ resp' = NoResponse
    /\ UNCHANGED <<goarch, data, fieldNames, tableName, cellVars, stored, threads, apiVars>>

Next ==
    \/ CallToJSON
    \/ CallToCSV
    \/ CallToMarkdownTable
    \/ CallToSQL
    \/ CallGetAvailableFormats

Spec == Init /\ [][Next]_vars


(***************************************************************************)
(* A JSON reader, for the claims that parse ToJSON's output back.  A       *)
(* parse step returns [ok, v, i]: the value read and the position after    *)
(* it.  Numbers are read as float64, objects as maps, arrays as slices.    *)
(***************************************************************************)
At(t, i) == IF i <= Len(t) THEN t[i] ELSE "EOF"

RECURSIVE SkipWs(_, _)
SkipWs(t, i) == IF At(t, i) \in {" ", "\n", "\t", "\r"} THEN SkipWs(t, i + 1) ELSE i

Bad == [ok |-> FALSE, v |-> Nil, i |-> 0]
Got(v, i) == [ok |-> TRUE, v |-> v, i |-> i]

HasWord(t, i, w) == i + Len(w) - 1 <= Len(t) /\ SubSeq(t, i, i + Len(w) - 1) = w

\* The characters of a string literal from position i (after the opening
\* quote) to the closing quote.
RECURSIVE ReadString(_, _, _)
ReadString(t, i, acc) ==
    LET c == At(t, i)
    IN CASE c = "EOF" -> Bad
         [] c = "\"" -> Got(acc, i + 1)
         [] c = "\\" ->
              LET d == At(t, i + 1)
              IN CASE d = "\"" -> ReadString(t, i + 2, Append(acc, "\""))
                   [] d = "\\" -> ReadString(t, i + 2, Append(acc, "\\"))
                   [] d = "n" -> ReadString(t, i + 2, Append(acc, "\n"))
                   [] d = "r" -> ReadString(t, i + 2, Append(acc, "\r"))
                   [] d = "t" -> ReadString(t, i + 2, Append(acc, "\t"))
                   [] d = "u" /\ HasWord(t, i + 2, <<"0", "0", "3", "c">>) ->
                        ReadString(t, i + 6, Append(acc, "<"))
                   [] d = "u" /\ HasWord(t, i + 2, <<"0", "0", "3", "e">>) ->
                        ReadString(t, i + 6, Append(acc, ">"))
                   [] d = "u" /\ HasWord(t, i + 2, <<"0", "0", "2", "6">>) ->
                        ReadString(t, i + 6, Append(acc, "&"))
                   [] OTHER -> Bad
         [] c \in {"\n", "\r", "\t"} -> Bad
         [] OTHER -> ReadString(t, i + 1, Append(acc, c))

IsDigitChar(c) == c \in {"0", "1", "2", "3", "4", "5", "6", "7", "8", "9"}
CharDigit(c) == CHOOSE d \in 0..9 : DigitChar(d) = c

\* The digits from position i on.
RECURSIVE ReadDigits(_, _, _)
ReadDigits(t, i, acc) ==
    IF IsDigitChar(At(t, i)) THEN ReadDigits(t, i + 1, Append(acc, CharDigit(At(t, i))))
    ELSE [ds |-> acc, i |-> i]

RECURSIVE DigitsValue(_)
DigitsValue(ds) == IF ds = <<>> THEN 0 ELSE 10 * DigitsValue(SubSeq(ds, 1, Len(ds) - 1)) + ds[Len(ds)]

\* The float64 with decimal digits ds and decimal point at dp, normalised:
\* no leading and no trailing zero digit.
RECURSIVE Normalise(_, _, _)
Normalise(neg, ds, dp) ==
    IF ds = <<>> THEN Float(neg, <<>>, 0)
    ELSE IF Head(ds) = 0 THEN Normalise(neg, Tail(ds), dp - 1)
    ELSE Float(neg, StripZeros(ds), dp)

ReadNumber(t, i) ==
    LET neg == At(t, i) = "-"
        int == ReadDigits(t, IF neg THEN i + 1 ELSE i, <<>>)
        frac == IF At(t, int.i) = "." THEN ReadDigits(t, int.i + 1, <<>>)
                ELSE [ds |-> <<>>, i |-> int.i]
        hasExp == At(t, frac.i) \in {"e", "E"}
        expNeg == hasExp /\ At(t, frac.i + 1) = "-"
        expAt == IF hasExp /\ At(t, frac.i + 1) \in {"-", "+"} THEN frac.i + 2 ELSE frac.i + 1
        exp == IF hasExp THEN ReadDigits(t, expAt, <<>>) ELSE [ds |-> <<0>>, i |-> frac.i]
        e == IF expNeg THEN 0 - DigitsValue(exp.ds) ELSE DigitsValue(exp.ds)
    IN IF int.ds = <<>> \/ exp.ds = <<>> THEN Bad
       ELSE Got(Normalise(neg, int.ds \o frac.ds, Len(int.ds) + e), exp.i)

RECURSIVE ReadValue(_, _)
RECURSIVE ReadElems(_, _, _)
RECURSIVE ReadMembers(_, _, _)

\* The elements of an array from position i (after "[" or ",").
ReadElems(t, i, acc) ==
    LET r == ReadValue(t, SkipWs(t, i))
        j == SkipWs(t, r.i)
    IN IF ~r.ok THEN Bad
       ELSE CASE At(t, j) = "," -> ReadElems(t, j + 1, Append(acc, r.v))
              [] At(t, j) = "]" -> Got(Slice(Append(acc, r.v)), j + 1)
              [] OTHER -> Bad

\* The members of an object from position i (after "{" or ","); a repeated
\* key keeps its last value.
ReadMembers(t, i, acc) ==
    LET k0 == SkipWs(t, i)
        k == IF At(t, k0) = "\"" THEN ReadString(t, k0 + 1, <<>>) ELSE Bad
        c == SkipWs(t, k.i)
        r == IF k.ok /\ At(t, c) = ":" THEN ReadValue(t, SkipWs(t, c + 1)) ELSE Bad
        j == SkipWs(t, r.i)
        m == [x \in (DOMAIN acc) \cup {k.v} |-> IF x = k.v THEN r.v ELSE acc[x]]
    IN IF ~r.ok THEN Bad
       ELSE CASE At(t, j) = "," -> ReadMembers(t, j + 1, m)
              [] At(t, j) = "}" -> Got(Map(m), j + 1)
              [] OTHER -> Bad

ReadValue(t, i) ==
    LET c == At(t, i)
    IN CASE HasWord(t, i, <<"n", "u", "l", "l">>) -> Got(Nil, i + 4)
         [] HasWord(t, i, <<"t", "r", "u", "e">>) -> Got(Bool(TRUE), i + 4)
         [] HasWord(t, i, <<"f", "a", "l", "s", "e">>) -> Got(Bool(FALSE), i + 5)
         [] c = "\"" -> LET r == ReadString(t, i + 1, <<>>)
                        IN IF r.ok THEN Got(Str(r.v), r.i) ELSE Bad
         [] c = "[" -> IF At(t, SkipWs(t, i + 1)) = "]"
                       THEN Got(Slice(<<>>), SkipWs(t, i + 1) + 1)
                       ELSE ReadElems(t, i + 1, <<>>)
         [] c = "{" -> IF At(t, SkipWs(t, i + 1)) = "}"
                       THEN Got(Map(<<>>), SkipWs(t, i + 1) + 1)
                       ELSE ReadMembers(t, i + 1, <<>>)
         [] c = "-" \/ IsDigitChar(c) -> ReadNumber(t, i)
         [] OTHER -> Bad

\* json.Unmarshal of a whole text into interface{}
ParseJSON(t) ==
    LET r == ReadValue(t, SkipWs(t, 1))
    IN IF r.ok /\ SkipWs(t, r.i) = Len(t) + 1 THEN r ELSE Bad


(***************************************************************************)
(* Claims about the export operations (checked under Spec).                *)
(***************************************************************************)
Rows == data.elems
Names == fieldNames.elems

\* C1: ToCSV, ToMarkdownTable and ToSQL called with an empty row sequence
\* return the no-data error and no output bytes, whatever the field list and
\* the table name; called with a non-empty row sequence none of them returns
\* that error.
C1_EmptyDataset ==
    op \in {"ToCSV", "ToMarkdownTable", "ToSQL"} =>
        /\ Len(Rows) = 0 => (err = NoData /\ out.isNil /\ out.elems = <<>>)
        /\ Len(Rows) > 0 => (err # NoData /\ err = "" /\ ~out.isNil)

\* ToCSV of []map[string]interface{}{} with the fields id, name.
C1_Witness ==
    /\ op = "ToCSV"
    /\ Len(Rows) = 0 /\ ~data.isNil
    /\ Names = <<kId, kName>>
    /\ err = NoData /\ out.isNil

\* n as a float64 (the count member read back)
NatFloat(n) == Normalise(FALSE, [i \in 1..Len(NatChars(n)) |-> CharDigit(NatChars(n)[i])], Len(NatChars(n)))

\* C2: for every row sequence, empty or not, and every field list, ToJSON
\* succeeds and its output decodes to an object with exactly the members
\* fields, data and count: fields is the field list in order, count is
\* len(rows), data read back equals rows in order, and for an empty row
\* sequence count is 0 and data is the empty array [].
C2_JSONRoundTrip ==
    op = "ToJSON" =>
        /\ err = ""
        /\ ~out.isNil
        /\ LET r == ParseJSON(out.elems)
               kFields == <<"f", "i", "e", "l", "d", "s">>
               kData == <<"d", "a", "t", "a">>
               kCount == <<"c", "o", "u", "n", "t">>
           IN /\ r.ok
              /\ r.v.t = "map"
              /\ DOMAIN r.v.m = {kFields, kData, kCount}
              /\ r.v.m[kCount] = NatFloat(Len(Rows))
              /\ r.v.m[kData] = Slice([i \in 1..Len(Rows) |-> Map(Rows[i])])
              /\ \/ r.v.m[kFields] = Slice([i \in 1..Len(Names) |-> Str(Names[i])])
                 \/ fieldNames.isNil /\ r.v.m[kFields] = Nil


(***************************************************************************)
(* A CSV reader, for the claims that parse ToCSV's output back: the        *)
(* reader of encoding/csv with its default settings, the format the        *)
(* writer delegates to.  It ignores blank lines, reads a quoted field up   *)
(* to its closing quote, drops a carriage return before a line break and   *)
(* wants every record to have as many fields as the first.                 *)
(***************************************************************************)
CsvBad == [ok |-> FALSE, recs |-> <<>>]

\* The first position from i on that holds a character of S (Len(t) + 1 when
\* there is none).
IndexFrom(t, i, S) ==
    LET ks == {k \in i..Len(t) : t[k] \in S}
    IN IF ks = {} THEN Len(t) + 1 ELSE CHOOSE k \in ks : \A j \in ks : k <= j

RECURSIVE CsvRecordsFrom(_, _, _)
RECURSIVE CsvFieldsFrom(_, _, _, _)

\* The records from position i, the start of a line: blank lines are skipped.
CsvRecordsFrom(t, i, recs) ==
    CASE i > Len(t) -> [ok |-> TRUE, recs |-> recs]
      [] At(t, i) = "\n" -> CsvRecordsFrom(t, i + 1, recs)
      [] At(t, i) = "\r" /\ At(t, i + 1) = "\n" -> CsvRecordsFrom(t, i + 2, recs)
      [] OTHER -> CsvFieldsFrom(t, i, <<>>, recs)

\* The fields from position i, the start of a field of the record rec.
CsvFieldsFrom(t, i, rec, recs) ==
    IF At(t, i) # "\""
    THEN \* a non-quoted field runs to the next comma or the end of the line
         LET k == IndexFrom(t, i, {",", "\n"})
             raw == SubSeq(t, i, k - 1)
             field == IF At(t, k) # "," /\ raw # <<>> /\ raw[Len(raw)] = "\r"
                      THEN SubSeq(raw, 1, Len(raw) - 1) ELSE raw
         IN IF \E j \in 1..Len(field) : field[j] = "\"" THEN CsvBad
            ELSE IF At(t, k) = "," THEN CsvFieldsFrom(t, k + 1, Append(rec, field), recs)
            ELSE CsvRecordsFrom(t, k + 1, Append(recs, Append(rec, field)))
    ELSE \* a quoted field runs to the first quote that is not half of a pair
         LET qs == {p \in (i + 1)..Len(t) : t[p] = "\""}
             before(p) == Cardinality({x \in qs : x < p})
             closing == {q \in qs : before(q) % 2 = 0 /\ At(t, q + 1) # "\""}
         IN IF closing = {} THEN CsvBad
            ELSE LET q == CHOOSE x \in closing : \A y \in closing : x <= y
                     field == Flatten([n \in 1..(q - 1 - i) |->
                                 LET p == i + n
                                 IN IF t[p] = "\"" /\ before(p) % 2 = 1 THEN <<>>
                                    ELSE IF t[p] = "\r" /\ At(t, p + 1) = "\n" THEN <<>>
                                    ELSE <<t[p]>>])
                     d == At(t, q + 1)
                 IN CASE d = "," -> CsvFieldsFrom(t, q + 2, Append(rec, field), recs)
                      [] d = "\n" -> CsvRecordsFrom(t, q + 2, Append(recs, Append(rec, field)))
                      [] d = "\r" /\ At(t, q + 2) = "\n" ->
                           CsvRecordsFrom(t, q + 3, Append(recs, Append(rec, field)))
                      [] d = "EOF" -> [ok |-> TRUE, recs |-> Append(recs, Append(rec, field))]
                      [] OTHER -> CsvBad

\* csv.NewReader(text).ReadAll()
ReadCSV(t) ==
    LET r == CsvRecordsFrom(t, 1, <<>>)
    IN IF r.ok /\ \A k \in 1..Len(r.recs) : Len(r.recs[k]) = Len(r.recs[1])
       THEN r ELSE CsvBad

\* The records ToCSV is to emit: the field list, then the formatted cells of
\* every row in field order.
CsvRecords ==
    <<Names>> \o [i \in 1..Len(Rows) |->
                    [j \in 1..Len(Names) |-> formatValue(Lookup(Rows[i], Names[j]))]]

\* A value the CSV format writes as it is.
IsPlain(v) ==
    /\ \A k \in 1..Len(v) : v[k] \notin {",", "\"", "\n", "\r"}
    /\ v # <<>> => v[1] \notin {" ", "\t"}
    /\ v # <<"\\", ".">>

\* C3: for a non-empty row sequence ToCSV's output is the header record (the
\* field list in order, comma-joined) followed by exactly one record per row
\* in the order of rows, the j-th value of the i-th data record being
\* formatValue(rows[i][fields[j]]); rows {id:1,name:John,age:30},
\* {id:2,name:Jane,age:25} with fields id,name,age give the lines
\* id,name,age then 1,John,30 then 2,Jane,25.
C3_CSVRecords ==
    (op = "ToCSV" /\ Len(Rows) > 0) =>
        /\ err = ""
        /\ out.elems = Flatten([k \in 1..Len(CsvRecords) |-> CsvWrite(CsvRecords[k])])
        /\ (\A k \in 1..Len(CsvRecords) : \A j \in 1..Len(Names) : IsPlain(CsvRecords[k][j]))
              => out.elems = Flatten([k \in 1..Len(CsvRecords) |->
                                         Join(CsvRecords[k], <<",">>) \o <<"\n">>])
        /\ (Rows = <<RowJohn, RowJane>> /\ Names = <<kId, kName, kAge>>)
              => out.elems = <<"i", "d", ",", "n", "a", "m", "e", ",", "a", "g", "e", "\n">>
               \o <<"1", ",", "J", "o", "h", "n", ",", "3", "0", "\n">>
               \o <<"2", ",", "J", "a", "n", "e", ",", "2", "5", "\n">>

C3_Witness ==
    /\ op = "ToCSV"
    /\ Rows = <<RowJohn, RowJane>>
    /\ Names = <<kId, kName, kAge>>
    /\ out.elems = <<"i", "d", ",", "n", "a", "m", "e", ",", "a", "g", "e", "\n">>
                 \o <<"1", ",", "J", "o", "h", "n", ",", "3", "0", "\n">>
                 \o <<"2", ",", "J", "a", "n", "e", ",", "2", "5", "\n">>

\* C4: for a non-empty row sequence and a non-empty field list, reading
\* ToCSV's output with a conformant CSV reader gives exactly len(rows)+1
\* records of exactly len(fields) values each: the field list, then the
\* formatted cells of every row, also when a field name or a cell is empty or
\* holds a comma, a double quote or a line break.
C4_CSVRoundTrip ==
    (op = "ToCSV" /\ Len(Rows) > 0 /\ Len(Names) > 0) =>
        LET r == ReadCSV(out.elems)
        IN /\ r.ok
           /\ Len(r.recs) = Len(Rows) + 1
           /\ \A k \in 1..Len(r.recs) : Len(r.recs[k]) = Len(Names)
           /\ r.recs = CsvRecords


\* The table name ToSQL writes.
Table == IF tableName = <<>> THEN <<"m", "o", "c", "k", "_", "d", "a", "t", "a">> ELSE tableName

\* The column type the claims expect for a first-row cell.
ExpectedType(v) ==
    CASE v.t = "float64" -> <<"N", "U", "M", "E", "R", "I", "C">>
      [] v.t = "bool" -> <<"B", "O", "O", "L", "E", "A", "N">>
      [] OTHER -> <<"T", "E", "X", "T">>

\* The comment block and the CREATE TABLE statement the claims expect.
ExpectedSqlHead ==
    <<"-", "-", " ", "G", "e", "n", "e", "r", "a", "t", "e", "d", " ", "d",
            "a", "t", "a", "\n", "-", "-", " ", "T", "a", "b", "l", "e", ":", " ">> \o Table \o <<"\n", "\n">>
    \o <<"C", "R", "E", "A", "T", "E", " ", "T", "A", "B", "L", "E", " ", "I",
            "F", " ", "N", "O", "T", " ", "E", "X", "I", "S", "T", "S", " ">> \o Table \o <<" ", "(", "\n">>
    \o Join([j \in 1..Len(Names) |->
                <<" ", " ">> \o Names[j] \o <<" ">>
                \o ExpectedType(IF Names[j] \in DOMAIN Rows[1] THEN Rows[1][Names[j]] ELSE Nil)],
            <<",", "\n">>)
    \o (IF Len(Names) > 0 THEN <<"\n">> ELSE <<>>)
    \o <<")", ";", "\n", "\n">>

\* The INSERT statement the claims expect for row i, without its line break.
ExpectedInsert(i) ==
    <<"I", "N", "S", "E", "R", "T", " ", "I", "N", "T", "O", " ">> \o Table \o <<" ", "(">> \o Join(Names, <<",", " ">>)
    \o <<")", " ", "V", "A", "L", "U", "E", "S", " ", "(">>
    \o Join([j \in 1..Len(Names) |-> formatSQLValue(Lookup(Rows[i], Names[j]))], <<",", " ">>)
    \o <<")", ";">>

\* What follows the first n characters of ToSQL's output.
After(n) == SubSeq(out.elems, n + 1, Len(out.elems))

\* The lines of a text from position i, each without its line break (a text
\* that does not end with a line break has a last, unterminated line).
RECURSIVE LinesFrom(_, _)
LinesFrom(t, i) ==
    IF i > Len(t) THEN <<>>
    ELSE LET k == IndexFrom(t, i, {"\n"})
         IN <<SubSeq(t, i, k - 1)>> \o LinesFrom(t, k + 1)

SplitLines(t) == LinesFrom(t, 1)

HasLineBreak(t) == \E k \in 1..Len(t) : t[k] = "\n"

\* No line break in the table name, a field name or a formatted cell.
SingleLineInputs ==
    /\ ~HasLineBreak(Table)
    /\ \A j \in 1..Len(Names) : ~HasLineBreak(Names[j])
    /\ \A i \in 1..Len(Rows) : \A j \in 1..Len(Names) :
           ~HasLineBreak(formatSQLValue(Lookup(Rows[i], Names[j])))

UsersExample ==
    /\ Rows = <<RowActive>>
    /\ Names = <<kId, kName, kActive>>
    /\ tableName = <<"u", "s", "e", "r", "s">>

UsersInsert ==
    <<"I", "N", "S", "E", "R", "T", " ", "I", "N", "T", "O", " ", "u", "s",
            "e", "r", "s", " ", "(", "i", "d", ",", " ", "n", "a", "m", "e", ",",
            " ", "a", "c", "t", "i", "v", "e", ")", " ", "V", "A", "L", "U", "E",
            "S", " ", "(", "1", ",", " ", "'", "J", "o", "h", "n", "'", ",", " ",
            "T", "R", "U", "E", ")", ";">>

\* C9 as claimed: for every non-empty row sequence, field list and cells,
\* ToSQL emits exactly len(rows) INSERT statements in the order of rows, each
\* occupying exactly one line INSERT INTO <table> (<fields>) VALUES (<values>);
C9_InsertPerLine ==
    (op = "ToSQL" /\ Len(Rows) > 0) =>
        /\ err = ""
        /\ SplitLines(After(Len(ExpectedSqlHead))) = [i \in 1..Len(Rows) |-> ExpectedInsert(i)]

\* C9 as amended: ToSQL emits, after the CREATE TABLE statement, exactly
\* len(rows) INSERT statements in the order of rows, each of the form
\* INSERT INTO <table> (<fields>) VALUES (<values>); followed by a line break;
\* each occupies exactly one line when no table name, field name or formatted
\* cell holds a line break.
C9_InsertStatements ==
    (op = "ToSQL" /\ Len(Rows) > 0) =>
        /\ err = ""
        /\ After(Len(ExpectedSqlHead)) = Flatten([i \in 1..Len(Rows) |-> ExpectedInsert(i) \o <<"\n">>])
        /\ SingleLineInputs =>
              SplitLines(After(Len(ExpectedSqlHead))) = [i \in 1..Len(Rows) |-> ExpectedInsert(i)]
        /\ UsersExample => After(Len(ExpectedSqlHead)) = UsersInsert \o <<"\n">>

C9_Witness ==
    /\ op = "ToSQL"
    /\ UsersExample
    /\ SplitLines(After(Len(ExpectedSqlHead))) = <<UsersInsert>>

\* C10: ToSQL emits, after the comment block and before any INSERT, one
\* CREATE TABLE IF NOT EXISTS <table> statement whose columns are the field
\* list in order, each with the type inferred from the first row's value:
\* null gives TEXT, a number NUMERIC, a boolean BOOLEAN, a string and any
\* other type TEXT.
C10_CreateTable ==
    (op = "ToSQL" /\ Len(Rows) > 0) =>
        /\ err = ""
        /\ Len(out.elems) >= Len(ExpectedSqlHead)
        /\ SubSeq(out.elems, 1, Len(ExpectedSqlHead)) = ExpectedSqlHead
        /\ HasWord(out.elems, Len(ExpectedSqlHead) + 1, <<"I", "N", "S", "E", "R", "T", " ", "I", "N", "T", "O", " ">>)
        /\ UsersExample =>
              SubSeq(out.elems, 1, Len(ExpectedSqlHead)) =
                  <<"-", "-", " ", "G", "e", "n", "e", "r", "a", "t", "e", "d", " ", "d",
            "a", "t", "a", "\n", "-", "-", " ", "T", "a", "b", "l", "e", ":", " ",
            "u", "s", "e", "r", "s", "\n", "\n">>
                  \o <<"C", "R", "E", "A", "T", "E", " ", "T", "A", "B", "L", "E", " ", "I",
            "F", " ", "N", "O", "T", " ", "E", "X", "I", "S", "T", "S", " ", "u",
            "s", "e", "r", "s", " ", "(", "\n">>
                  \o <<" ", " ", "i", "d", " ", "N", "U", "M", "E", "R", "I", "C", ",", "\n",
            " ", " ", "n", "a", "m", "e", " ", "T", "E", "X", "T", ",", "\n", " ",
            " ", "a", "c", "t", "i", "v", "e", " ", "B", "O", "O", "L", "E", "A",
            "N", "\n", ")", ";", "\n", "\n">>

\* A first row with a null id and a later row with a numeric id: the id
\* column is declared TEXT.
C10_Witness ==
    /\ op = "ToSQL"
    /\ Rows = <<RowSparse, RowJohn>>
    /\ Names = <<kId, kName, kActive>>
    /\ tableName = <<>>
    /\ SubSeq(out.elems, 1, Len(ExpectedSqlHead)) =
           <<"-", "-", " ", "G", "e", "n", "e", "r", "a", "t", "e", "d", " ", "d",
            "a", "t", "a", "\n", "-", "-", " ", "T", "a", "b", "l", "e", ":", " ",
            "m", "o", "c", "k", "_", "d", "a", "t", "a", "\n", "\n">>
           \o <<"C", "R", "E", "A", "T", "E", " ", "T", "A", "B", "L", "E", " ", "I",
            "F", " ", "N", "O", "T", " ", "E", "X", "I", "S", "T", "S", " ", "m",
            "o", "c", "k", "_", "d", "a", "t", "a", " ", "(", "\n">>
           \o <<" ", " ", "i", "d", " ", "T", "E", "X", "T", ",", "\n", " ", " ", "n",
            "a", "m", "e", " ", "T", "E", "X", "T", ",", "\n", " ", " ", "a", "c",
            "t", "i", "v", "e", " ", "B", "O", "O", "L", "E", "A", "N", "\n", ")",
            ";", "\n", "\n">>


\* The comment block and the CREATE TABLE statement of a ToSQL output: the
\* text up to the first ");" that two line breaks follow.
CreateTableOf(t) ==
    LET ends == {k \in 1..(Len(t) - 3) : SubSeq(t, k, k + 3) = <<")", ";", "\n", "\n">>}
    IN IF ends = {} THEN t
       ELSE SubSeq(t, 1, (CHOOSE k \in ends : \A m \in ends : k <= m) + 3)

\* C11: the CREATE TABLE statement ToSQL emits depends only on the table
\* name, the field list and the first row: it is the statement ToSQL emits
\* for the first row alone, whatever the later rows hold, and a column whose
\* first-row value is null (or missing) is declared TEXT also when a later
\* row holds a number under it.
C11_FirstRowOnly ==
    (op = "ToSQL" /\ Len(Rows) > 0) =>
        /\ err = ""
        /\ CreateTableOf(out.elems) =
               CreateTableOf(ToSQL(MkSlice(<<Rows[1]>>), fieldNames, tableName).out.elems)
        /\ \A j \in 1..Len(Names) :
               (Lookup(Rows[1], Names[j]) = Nil /\ \A n \in 1..Len(Names) : ~HasLineBreak(Names[n]))
                   => SplitLines(CreateTableOf(out.elems))[4 + j] =
                          <<" ", " ">> \o Names[j] \o <<" ", "T", "E", "X", "T">>
                          \o (IF j < Len(Names) THEN <<",">> ELSE <<>>)

\* {id: null, ...} then {id: 2, ...}: the id column is declared TEXT, as for
\* the first row alone.
C11_Witness ==
    /\ op = "ToSQL"
    /\ Rows = <<RowSparse, RowJane>>
    /\ Names = <<kId, kName, kAge>>
    /\ tableName = <<"u", "s", "e", "r", "s">>
    /\ SplitLines(CreateTableOf(out.elems))[5] = <<" ", " ", "i", "d", " ", "T", "E", "X", "T", ",">>
    /\ SplitLines(CreateTableOf(out.elems))[7] = <<" ", " ", "a", "g", "e", " ", "N", "U", "M", "E", "R", "I", "C">>


(***************************************************************************)
(* Claims about the Markdown table and about missing keys (under Spec).    *)
(***************************************************************************)
Bar == <<" ", "|", " ">>

\* The header line, the separator line and the data line of row i that the
\* claims expect, each without its line break.
MdHeaderLine == <<"|", " ">> \o Join(Names, Bar) \o <<" ", "|">>
MdSeparatorLine ==
    <<"|">> \o Flatten([j \in 1..Len(Names) |-> <<"-", "-", "-", "-", "-", "-", "-", "-", "|">>])
MdDataLine(i) ==
    <<"|", " ">> \o Join([j \in 1..Len(Names) |-> formatValue(Lookup(Rows[i], Names[j]))], Bar)
    \o <<" ", "|">>

NumBars(line) == Cardinality({k \in 1..Len(line) : line[k] = "|"})

\* C13: for every non-empty row sequence and field list the lines of
\* ToMarkdownTable's output are, in this order: the header line
\* | f1 | ... | fn |, one separator line with one dash segment per field, and
\* one data line per row, in the order of rows, holding formatValue of the
\* row's value for each field in field-list order, formatted like the header.
C13_MarkdownLines ==
    (op = "ToMarkdownTable" /\ Len(Rows) > 0) =>
        /\ err = ""
        /\ SplitLines(out.elems) =
               <<MdHeaderLine, MdSeparatorLine>> \o [i \in 1..Len(Rows) |-> MdDataLine(i)]

\* C14: for every non-empty row sequence, non-empty field list and all cell
\* values, strings with a vertical bar or a line break included,
\* ToMarkdownTable's output has exactly len(rows)+2 lines and every data
\* line has exactly len(fields)+1 vertical bars, like the header line.
C14_MarkdownShape ==
    (op = "ToMarkdownTable" /\ Len(Rows) > 0 /\ Len(Names) > 0) =>
        LET lines == SplitLines(out.elems)
        IN /\ err = ""
           /\ Len(lines) = Len(Rows) + 2
           /\ \A i \in 3..Len(lines) : NumBars(lines[i]) = Len(Names) + 1

\* A dataset with every key of the field list that a row lacks added to the
\* row with a null value.
Filled ==
    [isNil |-> data.isNil,
     elems |-> [i \in 1..Len(Rows) |->
                   [k \in DOMAIN Rows[i] \cup {Names[j] : j \in 1..Len(Names)} |->
                       Lookup(Rows[i], k)]]]

JohnNoActive == Rows = <<RowJohn>> /\ Names = <<kId, kName, kActive>> /\ tableName = <<>>

\* C15: every export renders a row that lacks a key of the field list as it
\* renders the row with that key present and null: an empty cell in CSV and
\* Markdown, NULL in the INSERT statement and, for the first row, a TEXT
\* column in CREATE TABLE; and no export fails because a key is missing (an
\* export of the dataset fails exactly when the export of the dataset with
\* the keys filled in does).
C15_MissingKeyIsNull ==
    /\ op = "ToCSV" =>
          /\ [out |-> out, err |-> err] = ToCSV(Filled, fieldNames)
          /\ JohnNoActive =>
                out.elems = <<"i", "d", ",", "n", "a", "m", "e", ",", "a", "c", "t", "i", "v", "e", "\n",
                              "1", ",", "J", "o", "h", "n", ",", "\n">>
    /\ op = "ToMarkdownTable" =>
          /\ [out |-> out, err |-> err] = ToMarkdownTable(Filled, fieldNames)
          /\ JohnNoActive =>
                SplitLines(out.elems)[3] = <<"|", " ", "1", " ", "|", " ", "J", "o", "h", "n", " ", "|", " ", " ", "|">>
    /\ op = "ToSQL" =>
          /\ [out |-> out, err |-> err] = ToSQL(Filled, fieldNames, tableName)
          /\ JohnNoActive =>
                /\ SplitLines(out.elems)[7] = <<" ", " ", "a", "c", "t", "i", "v", "e", " ", "T", "E", "X", "T">>
                /\ SplitLines(out.elems)[10] =
                       <<"I", "N", "S", "E", "R", "T", " ", "I", "N", "T", "O", " ",
                         "m", "o", "c", "k", "_", "d", "a", "t", "a", " ",
                         "(", "i", "d", ",", " ", "n", "a", "m", "e", ",", " ", "a", "c", "t", "i", "v", "e", ")",
                         " ", "V", "A", "L", "U", "E", "S", " ",
                         "(", "1", ",", " ", "'", "J", "o", "h", "n", "'", ",", " ", "N", "U", "L", "L", ")", ";">>
    /\ op = "ToJSON" => err = ToJSON(Filled, fieldNames).err

\* ToSQL of a row without the key active, which the field list names.
C15_Witness ==
    /\ op = "ToSQL"
    /\ JohnNoActive
    /\ kActive \notin DOMAIN Rows[1]
    /\ err = ""
    /\ SplitLines(out.elems)[7] = <<" ", " ", "a", "c", "t", "i", "v", "e", " ", "T", "E", "X", "T">>


\* C19: no export operation modifies its inputs or any state outside the
\* call: every step of a sequence of export calls, successful or failing,
\* leaves the row sequence, every row's keys and values, the field list and
\* the table name as they were, and a list of formats returned earlier
\* changes only by being replaced by the list a new call returns.
C19_InputsUnchanged ==
    [][/\ data' = data
       /\ fieldNames' = fieldNames
       /\ tableName' = tableName
       /\ stored' = stored
       /\ op' # "GetAvailableFormats" => formats' = formats]_vars

\* A failing ToCSV after GetAvailableFormats: the empty dataset and the
\* field list are as passed.
C19_Witness ==
    /\ op = "ToCSV"
    /\ err = NoData
    /\ formats = GetAvailableFormats
    /\ data = MkSlice(<<>>)
    /\ fieldNames = MkSlice(<<kName, kComma, kQuote>>)


(***************************************************************************)
(* The HTTP export handler, Handler.ExportMockData.  The database is the   *)
(* environment: for the request id it gives no row, an error, or a row     *)
(* with the stored JSON text and the field names.  The state keeps the     *)
(* latest step only: handling a request clears the record of a direct      *)
(* call.  A message built with Sprintf is kept as its parts.               *)
(***************************************************************************)
StatusOK == 200
StatusBadRequest == 400
StatusNotFound == 404
StatusInternalServerError == 500

kJson == <<"j", "s", "o", "n">>
kCsv == <<"c", "s", "v">>
kMarkdown == <<"m", "a", "r", "k", "d", "o", "w", "n">>
kMd == <<"m", "d">>
kSql == <<"s", "q", "l">>
kUsers == <<"u", "s", "e", "r", "s">>

\* c.Query(key, defaultValue): the default when the key is missing or its
\* value is empty.
QueryValue(p, defaultValue) == IF p.has /\ p.v # <<>> THEN p.v ELSE defaultValue

\* json.Unmarshal(dataJSON, &data) into []map[string]interface{}: null gives
\* the nil slice, an array of objects the rows (a null element a nil map,
\* which reads like a map without keys), anything else an error.
DecodeRows(t) ==
    LET r == ParseJSON(t)
    IN IF ~r.ok THEN [ok |-> FALSE, data |-> NilSlice]
       ELSE IF r.v = Nil THEN [ok |-> TRUE, data |-> NilSlice]
       ELSE IF r.v.t = "slice" /\ \A i \in 1..Len(r.v.elems) : r.v.elems[i].t \in {"map", "nil"}
       THEN [ok |-> TRUE,
             data |-> MkSlice([i \in 1..Len(r.v.elems) |->
                                  IF r.v.elems[i].t = "map" THEN r.v.elems[i].m ELSE <<>>])]
       ELSE [ok |-> FALSE, data |-> NilSlice]

\* An error response: c.Status(status).JSON(models.ErrorResponse{...}).
ErrorResponse(status, error, message) ==
    [status |-> status, error |-> error, message |-> message, body |-> NilSlice,
     contentType |-> "application/json", filename |-> <<>>]

\* Mutant of Dispatch: the alias md is not accepted.
DispatchNoAlias(format, d, f, t) ==
    CASE format = kJson ->
            [name |-> "ToJSON", r |-> ToJSON(d, f), contentType |-> "application/json", ext |-> kJson]
      [] format = kCsv ->
            [name |-> "ToCSV", r |-> ToCSV(d, f), contentType |-> "text/csv", ext |-> kCsv]
      [] format = kMarkdown ->
            [name |-> "ToMarkdownTable", r |-> ToMarkdownTable(d, f),
             contentType |-> "text/markdown", ext |-> kMd]
      [] format = kSql ->
            [name |-> "ToSQL", r |-> ToSQL(d, f, t), contentType |-> "application/sql", ext |-> kSql]
      [] OTHER -> [name |-> "none", r |-> Fail(""), contentType |-> "", ext |-> <<>>]

\* switch format { ... }: the export called for a format, its content type
\* and the extension of the file name; name "none" is the default case.
Dispatch(format, d, f, t) ==
    CASE format = kJson ->
            [name |-> "ToJSON", r |-> ToJSON(d, f), contentType |-> "application/json", ext |-> kJson]
      [] format = kCsv ->
            [name |-> "ToCSV", r |-> ToCSV(d, f), contentType |-> "text/csv", ext |-> kCsv]
      [] format \in {kMarkdown, kMd} ->
            [name |-> "ToMarkdownTable", r |-> ToMarkdownTable(d, f),
             contentType |-> "text/markdown", ext |-> kMd]
      [] format = kSql ->
            [name |-> "ToSQL", r |-> ToSQL(d, f, t), contentType |-> "application/sql", ext |-> kSql]
      [] OTHER -> [name |-> "none", r |-> Fail(""), contentType |-> "", ext |-> <<>>]

\* Mutant of ExportResponse: the export's bytes are sent whatever the error.
ExportResponseIgnoresError(x) ==
    [status |-> StatusOK, error |-> "", message |-> <<>>, body |-> x.r.out,
     contentType |-> x.contentType, filename |-> <<"mockdata-%s.", x.ext>>]

\* if err != nil { 500 "Export failed" } ... return c.Send(exportData)
ExportResponse(x) ==
    IF x.r.err # ""
    THEN ErrorResponse(StatusInternalServerError, "Export failed", <<x.r.err>>)
    ELSE [status |-> StatusOK, error |-> "", message |-> <<>>, body |-> x.r.out,
          contentType |-> x.contentType, filename |-> <<"mockdata-%s.", x.ext>>]

\* What the handler does with the outcome x of the switch: the default case
\* answers 400, a case that called an export answers with its result.
Answer(format, table, d, x) ==
    IF x.name = "none"
    THEN [call |-> NoCall,
          resp |-> ErrorResponse(StatusBadRequest, "Invalid format",
                       <<"Format '%s' is not supported. Use: json, csv, markdown, or sql", format>>)]
    ELSE [call |-> [name |-> x.name, data |-> d, fieldNames |-> stored.fieldNames,
                    tableName |-> IF x.name = "ToSQL" THEN table ELSE <<>>,
                    out |-> x.r.out, err |-> x.r.err],
          resp |-> ExportResponse(x)]

\* The response to a request with query q, and the export call made for it;
\* dec is the stored JSON text decoded (it is read only for a row found).
\* The outcome of the switch is bound as an element of a set, so that it is
\* computed once.
Handle(q, dec) ==
    LET format == QueryValue(q.format, kJson)
        table == QueryValue(q.table, DefaultTable)
    IN IF stored.status = "norows"
       THEN [call |-> NoCall,
             resp |-> ErrorResponse(StatusNotFound, "Dataset not found",
                                    <<"No dataset found for request ID %s">>)]
       ELSE IF stored.status = "error"
       THEN [call |-> NoCall,
             resp |-> ErrorResponse(StatusInternalServerError, "Database error", <<"err.Error()">>)]
       ELSE IF ~dec.ok
       THEN [call |-> NoCall,
             resp |-> ErrorResponse(StatusInternalServerError, "Failed to parse data", <<"err.Error()">>)]
       ELSE CHOOSE h \in {Answer(format, table, dec.data, x) :
                             x \in {Dispatch(format, dec.data, stored.fieldNames, table)}} : TRUE

\* The requests: a format parameter absent, empty or set, and with some of
\* the formats a table parameter absent, empty or set.
FormatParams ==
    {Absent, Param(<<>>), Param(kJson), Param(kCsv), Param(kMarkdown), Param(kMd), Param(kSql),
     Param(<<"x", "m", "l">>), Param(<<"J", "S", "O", "N">>)}
TableParams == {Absent, Param(<<>>), Param(kUsers)}
Queries ==
    {[format |-> f, table |-> Absent] : f \in FormatParams}
    \cup {[format |-> f, table |-> t] : f \in {Absent, Param(kSql), Param(kCsv)}, t \in TableParams}

\* What the database holds for the request id: the JSON text of up to
\* MaxRows rows (or of null), or a text that is no array of objects, with
\* MaxFields (at most 3) field names.
StoredRows == {RowActive, RowSparse}
StoredTexts ==
    {EncJSON(RowsValue(d), 0) :
        d \in {NilSlice} \cup {MkSlice(rows) : rows \in SeqsUpTo(StoredRows, MaxRows)}}
    \cup {<<"{", "}">>, <<"[", "1", "]">>}
StoredFieldLists ==
    {MkSlice(SubSeq(names, 1, Min(MaxFields, 3))) :
        names \in {<<kId, kName, kActive>>, <<kName, kAge, kId>>}}
StoredOutcomes ==
    {NoStored, [status |-> "error", dataJSON |-> <<>>, fieldNames |-> NilSlice]}
    \cup [status : {"found"}, dataJSON : StoredTexts, fieldNames : StoredFieldLists]

\* The arguments of the calls made directly, next to the handler's.
DirectDatasets == {NilSlice, MkSlice(<<RowNaN, RowActive>>)}

HandlerInit ==
    /\ goarch \in GoArchs
    /\ stored \in StoredOutcomes
    /\ data \in DirectDatasets
    /\ fieldNames = MkSlice(<<kId, kName, kActive>>)
    /\ tableName \in TableNames
    /\ op = "none"
    /\ out = NilSlice
    /\ err = ""
    /\ formats = NilSlice
    /\ query = NoQuery
    /\ call = NoCall
    /\ resp = NoResponse
    /\ CellIdle
    /\ ThreadsIdle
    /\ ApiIdle

ExportMockData ==
    \E dec \in {DecodeRows(stored.dataJSON)} : \E q \in Queries : \E h \in {Handle(q, dec)} :
        /\ query' = q
        /\ call' = h.call
        /\ resp' = h.resp
        /\ op' = "none"
        /\ out' = NilSlice
        /\ err' = ""
        /\ UNCHANGED <<goarch, data, fieldNames, tableName, formats, cellVars, stored, threads, apiVars>>

\* The caller of GetAvailableFormats writes into the list it was given.
CallerModifiesFormats ==
    /\ ~formats.isNil
    /\ formats' = [formats EXCEPT !.elems[1] = <<"x", "m", "l">>]
    /\ op' = "callerWrite"
    /\ out' = NilSlice
    /\ err' = ""
    /\ query' = NoQuery
    /\ call' = NoCall
    /\ resp' = NoResponse
    /\ UNCHANGED <<goarch, data, fieldNames, tableName, cellVars, stored, threads, apiVars>>

HandlerNext ==
    \/ ExportMockData
    \/ CallToJSON
    \/ CallToCSV
    \/ CallToMarkdownTable
    \/ CallToSQL
    \/ CallGetAvailableFormats
    \/ CallerModifiesFormats

HandlerSpec == HandlerInit /\ [][HandlerNext]_vars


(***************************************************************************)
(* Claims about the handler and the service together (under HandlerSpec).  *)
(***************************************************************************)
\* The three places of a ToSQL output that name the table: the comment
\* line, the CREATE TABLE line and the INSERT line of each of n rows.
NamesTable(text, n, t) ==
    LET lines == SplitLines(text)
    IN /\ Len(lines) >= 4 + n
       /\ lines[2] = <<"-", "-", " ", "T", "a", "b", "l", "e", ":", " ">> \o t
       /\ lines[4] = <<"C", "R", "E", "A", "T", "E", " ", "T", "A", "B", "L", "E", " ",
                       "I", "F", " ", "N", "O", "T", " ", "E", "X", "I", "S", "T", "S", " ">>
                     \o t \o <<" ", "(">>
       /\ \A i \in 1..n :
             HasWord(lines[Len(lines) - n + i], 1,
                     <<"I", "N", "S", "E", "R", "T", " ", "I", "N", "T", "O", " ">> \o t \o <<" ", "(">>)

MockData == <<"m", "o", "c", "k", "_", "d", "a", "t", "a">>

\* C12: ToSQL called with an empty tableName uses mock_data in the comment
\* block, the CREATE TABLE statement and every INSERT statement; called with
\* a non-empty tableName it uses that name in all three; and ExportMockData
\* passes mock_data to ToSQL when the request has no table query parameter
\* (and the value of the parameter when it has one that is not empty).
C12_DefaultTableName ==
    /\ (op = "ToSQL" /\ Len(Rows) > 0) =>
          /\ err = ""
          /\ tableName = <<>> => NamesTable(out.elems, Len(Rows), MockData)
          /\ tableName # <<>> => NamesTable(out.elems, Len(Rows), tableName)
    /\ call.name = "ToSQL" =>
          /\ ~query.table.has => call.tableName = MockData
          /\ (query.table.has /\ query.table.v # <<>>) => call.tableName = query.table.v
          /\ call.tableName # <<>>
          /\ call.err = "" => NamesTable(call.out.elems, Len(call.data.elems), call.tableName)

\* GET /export?format=sql without a table parameter, for a stored row.
C12_Witness ==
    /\ query = [format |-> Param(kSql), table |-> Absent]
    /\ call.name = "ToSQL"
    /\ call.data = MkSlice(<<RowActive>>)
    /\ call.tableName = MockData
    /\ resp.status = 200
    /\ SplitLines(resp.body.elems)[2] =
           <<"-", "-", " ", "T", "a", "b", "l", "e", ":", " ", "m", "o", "c", "k", "_", "d", "a", "t", "a">>

\* C16: whenever one of the four export operations returns an error the
\* bytes it returns are nil, never a part of a rendering; and ExportMockData
\* sends export bytes as the response body only when the export returned no
\* error, and answers with an error response otherwise.
C16_NoPartialOutput ==
    /\ (op \in {"ToJSON", "ToCSV", "ToMarkdownTable", "ToSQL"} /\ err # "") =>
          (out.isNil /\ out.elems = <<>>)
    /\ (call.name # "none" /\ call.err # "") =>
          /\ call.out.isNil /\ call.out.elems = <<>>
          /\ resp.status = 500
          /\ resp.error = "Export failed"
          /\ resp.body = NilSlice
    /\ (call.name # "none" /\ call.err = "") =>
          (resp.status = 200 /\ resp.error = "" /\ resp.body = call.out)
    /\ resp.body # NilSlice => (call.name # "none" /\ call.err = "" /\ resp.status = 200)
    /\ (resp.status # 0 /\ call.name = "none") => (resp.status \in {400, 404, 500} /\ resp.body = NilSlice)

\* GET /export?format=csv for a stored dataset without rows: ToCSV fails and
\* the response is the error response.
C16_Witness ==
    /\ query.format = Param(kCsv)
    /\ stored.status = "found"
    /\ stored.dataJSON = <<"[", "]">>
    /\ call.name = "ToCSV"
    /\ call.err = NoData
    /\ call.out = NilSlice
    /\ resp.status = 500

\* C17: every call of GetAvailableFormats returns exactly csv, json,
\* markdown, sql - ascending, four elements, no duplicates - whatever the
\* state it is called in: after export calls, after requests handled, after
\* earlier calls of it, and after the caller has written into a list
\* returned earlier.
C17_FormatsFixed ==
    [][op' = "GetAvailableFormats" =>
          /\ formats' = MkSlice(<<kCsv, kJson, kMarkdown, kSql>>)
          /\ Len(formats'.elems) = 4
          /\ \A i \in 1..3 : StrLess(formats'.elems[i], formats'.elems[i + 1])]_vars

\* The caller has overwritten the first element of the list returned; the
\* next call is made from this state.
C17_Witness ==
    /\ op = "callerWrite"
    /\ formats = MkSlice(<< <<"x", "m", "l">>, kJson, kMarkdown, kSql >>)
    /\ ENABLED CallGetAvailableFormats

\* The format the handler switches on: json when the request gives none.
EffectiveFormat == IF query.format.has /\ query.format.v # <<>> THEN query.format.v ELSE kJson

\* C18: for a stored dataset ExportMockData maps the format json to ToJSON,
\* csv to ToCSV, markdown and md to ToMarkdownTable and sql to ToSQL, called
\* with the stored rows and field names; it uses json when no format is
\* given (the parameter is missing or empty); for every other format it
\* answers 400 "Invalid format" and calls no export; the formats accepted
\* are exactly those GetAvailableFormats returns, and md.
C18_FormatDispatch ==
    (resp.status # 0 /\ stored.status = "found" /\ DecodeRows(stored.dataJSON).ok) =>
        LET f == EffectiveFormat
            d == DecodeRows(stored.dataJSON).data
            result == [out |-> call.out, err |-> call.err]
            available == {GetAvailableFormats.elems[i] : i \in 1..Len(GetAvailableFormats.elems)}
        IN /\ f = kJson => (call.name = "ToJSON" /\ result = ToJSON(d, stored.fieldNames))
           /\ f = kCsv => (call.name = "ToCSV" /\ result = ToCSV(d, stored.fieldNames))
           /\ f \in {kMarkdown, kMd} =>
                 (call.name = "ToMarkdownTable" /\ result = ToMarkdownTable(d, stored.fieldNames))
           /\ f = kSql =>
                 (call.name = "ToSQL" /\ result = ToSQL(d, stored.fieldNames, call.tableName))
           /\ f \notin {kJson, kCsv, kMarkdown, kMd, kSql} =>
                 (resp.status = 400 /\ resp.error = "Invalid format" /\ call = NoCall)
           /\ call.name # "none" => (call.data = d /\ call.fieldNames = stored.fieldNames)
           /\ call.name # "none" <=> f \in available \cup {kMd}
           /\ available = {kJson, kCsv, kMarkdown, kSql}

\* GET /export?format=md for a stored dataset with rows.
C18_Witness ==
    /\ query.format = Param(kMd)
    /\ stored.status = "found"
    /\ call.name = "ToMarkdownTable"
    /\ call.data = MkSlice(<<RowSparse, RowActive>>)
    /\ resp.status = 200
    /\ resp.contentType = "text/markdown"


(***************************************************************************)
(* Export calls in progress at the same time.  ExportService is a struct   *)
(* without fields; every call renders into a buffer that is a local        *)
(* variable of the call (bytes.Buffer), and reads its arguments.  A call   *)
(* in progress is a record [name, pc, i, buf, out, err, mixed]: pc is its  *)
(* position ("check", "header", "rows", "marshal", "done"), i the number   *)
(* of rows written, buf its buffer.  The calls share the dataset, the      *)
(* field names and the table name; one step of one call is one write to    *)
(* the buffer.  The field mixed is not state of the program: it records    *)
(* that another call took a step while this one was in progress.           *)
(***************************************************************************)
IdleThread ==
    [name |-> "none", pc |-> "idle", i |-> 0, buf |-> <<>>, out |-> NilSlice, err |-> "",
     mixed |-> FALSE]

\* Call g has taken a step: the other calls in progress are marked.
Stepped(ts, g) ==
    [h \in DOMAIN ts |->
        IF h # g /\ ts[h].pc \notin {"idle", "done"} THEN [ts[h] EXCEPT !.mixed = TRUE] ELSE ts[h]]

Goroutines == 1..MaxCalls

\* Mutant of BufWrite: one buffer kept in the service, which every call
\* that is rendering writes to.
BufWriteShared(ts, g, bytes) ==
    [h \in DOMAIN ts |->
        IF h = g \/ ts[h].pc \in {"header", "rows"}
        THEN [ts[h] EXCEPT !.buf = @ \o bytes] ELSE ts[h]]

\* buf.WriteString(...) / writer.Write(...): call g appends to its buffer.
BufWrite(ts, g, bytes) == [ts EXCEPT ![g].buf = @ \o bytes]

\* What a call writes before its rows.
HeaderBytes(name) ==
    IF name = "ToCSV" THEN CsvWrite(fieldNames.elems)
    ELSE IF name = "ToMarkdownTable"
    THEN <<"|", " ">> \o Join(fieldNames.elems, <<" ", "|", " ">>) \o <<" ", "|", "\n">>
         \o <<"|">>
         \o Flatten([i \in 1..Len(fieldNames.elems) |-> <<"-", "-", "-", "-", "-", "-", "-", "-", "|">>])
         \o <<"\n">>
    ELSE LET table == IF tableName = <<>> THEN DefaultTable ELSE tableName
         IN <<"-", "-", " ", "G", "e", "n", "e", "r", "a", "t", "e", "d", " ", "d", "a", "t", "a", "\n">>
            \o <<"-", "-", " ", "T", "a", "b", "l", "e", ":", " ">> \o table \o <<"\n", "\n">>
            \o <<"C", "R", "E", "A", "T", "E", " ", "T", "A", "B", "L", "E", " ",
                 "I", "F", " ", "N", "O", "T", " ", "E", "X", "I", "S", "T", "S", " ">>
            \o table \o <<" ", "(", "\n">>
            \o SqlColumns(data.elems[1], fieldNames.elems)
            \o <<")", ";", "\n", "\n">>

\* What a call writes for one row.
RowBytes(name, row) ==
    IF name = "ToCSV" THEN CsvRows(<<row>>, fieldNames.elems)
    ELSE IF name = "ToMarkdownTable" THEN MarkdownRows(<<row>>, fieldNames.elems)
    ELSE SqlInserts(<<row>>, fieldNames.elems, IF tableName = <<>> THEN DefaultTable ELSE tableName)

ConcDatasets ==
    {NilSlice, MkSlice(SubSeq(<<RowJohn, RowSparse, RowJane, RowActive>>, 1, Min(MaxRows, 4)))}

ConcInit ==
    /\ goarch \in GoArchs
    /\ data \in ConcDatasets
    /\ fieldNames = MkSlice(SubSeq(<<kId, kName, kAge, kActive>>, 1, Min(MaxFields, 4)))
    /\ tableName \in TableNames
    /\ op = "none"
    /\ out = NilSlice
    /\ err = ""
    /\ formats = NilSlice
    /\ CellIdle
    /\ HandlerIdle
    /\ threads = [g \in Goroutines |-> IdleThread]
    /\ ApiIdle

ConcFrame == UNCHANGED <<goarch, cellVars, exportVars, handlerVars, apiVars>>

\* A goroutine calls one of the export operations.
CallBegins ==
    \E g \in Goroutines : \E name \in {"ToJSON", "ToCSV", "ToMarkdownTable", "ToSQL"} :
        /\ threads[g].pc \in {"idle", "done"}
        /\ threads' = [threads EXCEPT ![g] =
               [IdleThread EXCEPT !.name = name,
                                  !.pc = IF name = "ToJSON" THEN "marshal" ELSE "check"]]
        /\ ConcFrame

\* return json.MarshalIndent(data, "", "  ")
MarshalJSON ==
    \E g \in Goroutines :
        /\ threads[g].pc = "marshal"
        /\ LET r == ToJSON(data, fieldNames)
           IN threads' = Stepped([threads EXCEPT ![g].pc = "done", ![g].out = r.out, ![g].err = r.err], g)
        /\ ConcFrame

\* if len(data) == 0 { return nil, fmt.Errorf("no data to export") }
CheckEmpty ==
    \E g \in Goroutines :
        /\ threads[g].pc = "check"
        /\ threads' = Stepped(IF Len(data.elems) = 0
                              THEN [threads EXCEPT ![g].pc = "done", ![g].out = NilSlice,
                                                   ![g].err = NoData]
                              ELSE [threads EXCEPT ![g].pc = "header"], g)
        /\ ConcFrame

WriteHeader ==
    \E g \in Goroutines :
        /\ threads[g].pc = "header"
        /\ threads' = Stepped([BufWrite(threads, g, HeaderBytes(threads[g].name))
                                   EXCEPT ![g].pc = "rows"], g)
        /\ ConcFrame

\* for _, row := range data { ... }: one turn of the loop
WriteRow ==
    \E g \in Goroutines :
        /\ threads[g].pc = "rows"
        /\ threads[g].i < Len(data.elems)
        /\ threads' = Stepped([BufWrite(threads, g,
                                            RowBytes(threads[g].name, data.elems[threads[g].i + 1]))
                                   EXCEPT ![g].i = @ + 1], g)
        /\ ConcFrame

\* return buf.Bytes(), nil
ReturnBytes ==
    \E g \in Goroutines :
        /\ threads[g].pc = "rows"
        /\ threads[g].i = Len(data.elems)
        /\ threads' = Stepped([threads EXCEPT ![g].pc = "done",
                                              ![g].out = MkSlice(threads[g].buf)], g)
        /\ ConcFrame

ConcNext ==
    \/ CallBegins
    \/ MarshalJSON
    \/ CheckEmpty
    \/ WriteHeader
    \/ WriteRow
    \/ ReturnBytes

ConcSpec == ConcInit /\ [][ConcNext]_vars

\* The result of a call of the operation run alone on the shared arguments.
Alone(name) ==
    IF name = "ToJSON" THEN ToJSON(data, fieldNames)
    ELSE IF name = "ToCSV" THEN ToCSV(data, fieldNames)
    ELSE IF name = "ToMarkdownTable" THEN ToMarkdownTable(data, fieldNames)
    ELSE ToSQL(data, fieldNames, tableName)

\* The program's part of a call in progress.
Own(t) == [t EXCEPT !.mixed = FALSE]

\* C20: export calls of the same or of different formats on the same
\* dataset may be interleaved in any way: every call that has returned has
\* returned the result of the operation run alone, and a step of a call
\* changes nothing but that call's own position, buffer and result - not
\* the dataset, the field names, the table name or another call's buffer.
C20_CallsIndependent ==
    /\ [](\A g \in Goroutines :
             threads[g].pc = "done" =>
                 [out |-> threads[g].out, err |-> threads[g].err] = Alone(threads[g].name))
    /\ [][/\ data' = data /\ fieldNames' = fieldNames /\ tableName' = tableName
          /\ \A g, h \in Goroutines :
                (g # h /\ Own(threads'[g]) # Own(threads[g])) => Own(threads'[h]) = Own(threads[h])]_vars

\* A ToCSV call has returned its rendering after steps of a ToSQL call on
\* the same dataset were taken while it was in progress, and the ToSQL call
\* is in the middle of its rows, steps of the ToCSV call having been taken
\* while it was in progress.
C20_Witness ==
    /\ threads[1].name = "ToCSV" /\ threads[1].pc = "done" /\ ~threads[1].out.isNil
    /\ threads[1].mixed
    /\ threads[2].name = "ToSQL" /\ threads[2].pc = "rows" /\ threads[2].i = 1
    /\ threads[2].mixed
    /\ Len(data.elems) >= 2


(***************************************************************************)
(* The generation API: POST /api/generate (Handler.GenerateMockData, with  *)
(* models.GenerateRequest.Validate and OpenAIService.GenerateMockData),    *)
(* GET /api/data/:id (Handler.GetMockData) and the export of a dataset     *)
(* read from the database.  The database is two tables; every statement    *)
(* sent to it either takes effect or fails without effect.  A handler runs *)
(* one statement per step, so handlers of different requests interleave    *)
(* between statements.                                                     *)
(***************************************************************************)
MinRowCount == 1
MaxRowCount == 1000

ErrInvalidScenario == "scenario description is required"
ErrInvalidRowCount == "row count must be between 1 and 1000"

\* Mutant of Validate: the upper limit is tested with >=.
ValidateExclusive(r) ==
    IF r.scenario = <<>> THEN ErrInvalidScenario
    ELSE IF r.rowCount < MinRowCount \/ r.rowCount >= MaxRowCount THEN ErrInvalidRowCount
    ELSE ""

\* (r *GenerateRequest) Validate(): "" is the nil error.
Validate(r) ==
    IF r.scenario = <<>> THEN ErrInvalidScenario
    ELSE IF r.rowCount < MinRowCount \/ r.rowCount > MaxRowCount THEN ErrInvalidRowCount
    ELSE ""

\* json.Marshal(v): as EncJSON, without line breaks and spaces.
RECURSIVE MarshalCompact(_)
MarshalCompact(v) ==
    CASE v.t \in {"nil", "nilslice"} -> <<"n", "u", "l", "l">>
      [] v.t = "bool" -> IF v.b THEN <<"t", "r", "u", "e">> ELSE <<"f", "a", "l", "s", "e">>
      [] v.t = "string" -> JsonString(v.s)
      [] v.t = "float64" -> JsonFloat(v)
      [] v.t = "int" -> NatChars(v.n)
      [] v.t = "slice" ->
            <<"[">> \o Join([i \in 1..Len(v.elems) |-> MarshalCompact(v.elems[i])], <<",">>)
            \o <<"]">>
      [] v.t = "map" ->
            LET keys == SortedSeq(DOMAIN v.m)
            IN <<"{">>
               \o Join([i \in 1..Len(keys) |->
                           JsonString(keys[i]) \o <<":">> \o MarshalCompact(v.m[keys[i]])],
                       <<",">>)
               \o <<"}">>

kFields == <<"f", "i", "e", "l", "d", "s">>
kData == <<"d", "a", "t", "a">>

\* json.Unmarshal of a value into []string: null gives the nil slice, an
\* array of strings its elements (a null element the empty string),
\* anything else an error.
DecodeStrings(v) ==
    IF v = Nil THEN [ok |-> TRUE, names |-> NilSlice]
    ELSE IF v.t = "slice" /\ \A i \in 1..Len(v.elems) : v.elems[i].t \in {"string", "nil"}
    THEN [ok |-> TRUE,
          names |-> MkSlice([i \in 1..Len(v.elems) |->
                                IF v.elems[i].t = "string" THEN v.elems[i].s ELSE <<>>])]
    ELSE [ok |-> FALSE, names |-> NilSlice]

\* json.Unmarshal of a value into []map[string]interface{}, as DecodeRows
\* does for a whole text.
DecodeMaps(v) ==
    IF v = Nil THEN [ok |-> TRUE, data |-> NilSlice]
    ELSE IF v.t = "slice" /\ \A i \in 1..Len(v.elems) : v.elems[i].t \in {"map", "nil"}
    THEN [ok |-> TRUE,
          data |-> MkSlice([i \in 1..Len(v.elems) |->
                               IF v.elems[i].t = "map" THEN v.elems[i].m ELSE <<>>])]
    ELSE [ok |-> FALSE, data |-> NilSlice]

\* json.Unmarshal([]byte(content), &result) into struct{Fields; Data}: the
\* text null leaves the struct zero, an object fills the members it names,
\* anything else is an error.
DecodeResult(content) ==
    LET r == ParseJSON(content)
        bad == [ok |-> FALSE, fields |-> NilSlice, data |-> NilSlice]
    IN IF ~r.ok THEN bad
       ELSE IF r.v = Nil THEN [ok |-> TRUE, fields |-> NilSlice, data |-> NilSlice]
       ELSE IF r.v.t # "map" THEN bad
       ELSE LET f == IF kFields \in DOMAIN r.v.m THEN DecodeStrings(r.v.m[kFields])
                     ELSE [ok |-> TRUE, names |-> NilSlice]
                d == IF kData \in DOMAIN r.v.m THEN DecodeMaps(r.v.m[kData])
                     ELSE [ok |-> TRUE, data |-> NilSlice]
            IN IF f.ok /\ d.ok THEN [ok |-> TRUE, fields |-> f.names, data |-> d.data] ELSE bad

Generated(d, f) == [data |-> d, fieldNames |-> f, err |-> ""]
NotGenerated(msg) == [data |-> NilSlice, fieldNames |-> NilSlice, err |-> msg]

\* Mutant of OpenAIGenerate: a response without data rows is accepted.
OpenAIGenerateAcceptsNoRows(completion) ==
    IF completion.err THEN NotGenerated("OpenAI API error")
    ELSE IF ~completion.choice THEN NotGenerated("no response from OpenAI")
    ELSE LET result == DecodeResult(completion.content)
         IN IF ~result.ok THEN NotGenerated("failed to parse OpenAI response as JSON")
            ELSE IF Len(result.fields.elems) = 0 THEN NotGenerated("OpenAI response missing fields")
            ELSE Generated(result.data, result.fields)

\* OpenAIService.GenerateMockData, given what CreateChatCompletion returned.
OpenAIGenerate(completion) ==
    IF completion.err THEN NotGenerated("OpenAI API error")
    ELSE IF ~completion.choice THEN NotGenerated("no response from OpenAI")
    ELSE LET result == DecodeResult(completion.content)
         IN IF ~result.ok THEN NotGenerated("failed to parse OpenAI response as JSON")
            ELSE IF Len(result.fields.elems) = 0 THEN NotGenerated("OpenAI response missing fields")
            ELSE IF Len(result.data.elems) = 0 THEN NotGenerated("OpenAI response missing data")
            ELSE Generated(result.data, result.fields)


StatusCreated == 201

Test == <<"T", "e", "s", "t">>

\* What c.BodyParser(&req) gives: an error, or the request with the members
\* the body names (the others zero).
BadBody == [ok |-> FALSE, req |-> [scenario |-> <<>>, rowCount |-> 0]]
Body(scenario, rowCount) == [ok |-> TRUE, req |-> [scenario |-> scenario, rowCount |-> rowCount]]
RowCounts == {0, 1, 1000, 1001}
Scenarios == {<<>>, Test}
Bodies == {BadBody} \cup {Body(sc, n) : sc \in Scenarios, n \in RowCounts}

\* What CreateChatCompletion gives: an error, no choice, or the content of
\* the first choice.
Completion(content) == [err |-> FALSE, choice |-> TRUE, content |-> content]
GeneratedRowA == (kId :> Num(1)) @@ (kName :> Str(John))
GeneratedRowB == (kId :> Nil) @@ (kName :> Str(<<"a", "|", "b">>)) @@ (kActive :> Bool(FALSE))
Content(fields, rows) ==
    MarshalCompact(Map((kFields :> fields) @@ (kData :> rows)))
Contents ==
    { <<"S", "o", "r", "r", "y">>,
      <<"n", "u", "l", "l">>,
      <<"[", "1", "]">>,
      MarshalCompact(Map(kData :> Slice(<<Map(GeneratedRowA)>>))),
      Content(Slice(<<>>), Slice(<<Map(GeneratedRowA)>>)),
      Content(Slice(<<Num(1)>>), Slice(<<Map(GeneratedRowA)>>)),
      Content(Slice(<<Str(kId)>>), Slice(<<>>)),
      Content(Slice(<<Str(kId)>>), Nil),
      Content(Slice(<<Str(kId)>>), Slice(<<Num(1)>>)),
      Content(Slice(<<Str(kName), Str(kActive), Str(kId)>>),
              Slice(<<Map(GeneratedRowB), Map(GeneratedRowA)>>)) }
Completions ==
    {[err |-> TRUE, choice |-> FALSE, content |-> <<>>],
     [err |-> FALSE, choice |-> FALSE, content |-> <<>>]}
    \cup {Completion(c) : c \in Contents}

\* A GenerateMockData handler: its position, the scenario of the request
\* parsed, the id the INSERT returned, and what the OpenAI service returned.
\* (The row count of the request goes into the INSERT, the prompt and the
\* message of the response only, which the model leaves out.)
IdleGen ==
    [pc |-> "idle", scenario |-> <<>>, requestID |-> 0,
     data |-> NilSlice, fieldNames |-> NilSlice]

Handlers == 1..MaxHandlers

\* :id of the GET requests: the ids the table has given, and the next one,
\* which stands for every id without a row.
Ids == 1..(Len(requests) + 1)

\* c.Status(status).JSON(models.ErrorResponse{...}) of handler `handler`
Refuse(handler, id, status, error) ==
    [NoReply EXCEPT !.handler = handler, !.id = id, !.status = status, !.error = error]

\* Mutant of SetStatus: the update reaches every row (no WHERE clause).
SetStatusEverywhere(rs, id, status) == [n \in DOMAIN rs |-> [rs[n] EXCEPT !.status = status]]

\* UPDATE generation_requests SET status = ... WHERE id = $1
SetStatus(rs, id, status) == [rs EXCEPT ![id].status = status]

\* SELECT ... FROM mock_datasets WHERE request_id = $1: the rows found.
DatasetsOf(id) == SelectSeq(datasets, LAMBDA d : d.requestID = id)

ApiInit ==
    /\ goarch = "amd64"
    /\ data = NilSlice
    /\ fieldNames = NilSlice
    /\ tableName = <<>>
    /\ op = "none"
    /\ out = NilSlice
    /\ err = ""
    /\ formats = NilSlice
    /\ CellIdle
    /\ HandlerIdle
    /\ ThreadsIdle
    /\ requests = <<>>
    /\ datasets = <<>>
    /\ gens = [g \in Handlers |-> IdleGen]
    /\ getter = NoGetter
    /\ exportId = 0
    /\ reply = NoReply
    /\ openaiCalls = 0

\* What a step of GenerateMockData or GetMockData leaves alone, and the
\* export exchange it ends.
ApiFrame ==
    /\ stored' = NoStored
    /\ exportId' = 0
    /\ query' = NoQuery
    /\ call' = NoCall
    /\ resp' = NoResponse
    /\ UNCHANGED <<goarch, cellVars, exportVars, threads>>

\* Mutant of Receive: the request row is inserted before the request is
\* validated.
ReceiveInsertsFirst ==
    \E g \in Handlers : \E body \in Bodies :
        /\ gens[g].pc = "idle"
        /\ Len(requests) + Cardinality({h \in Handlers : gens[h].pc = "insert"}) < MaxRequests
        /\ IF ~body.ok
           THEN /\ reply' = Refuse("GenerateMockData", 0, StatusBadRequest, "Invalid request body")
                /\ UNCHANGED <<gens, requests>>
           ELSE /\ requests' = Append(requests, [scenario |-> body.req.scenario,
                                                 status |-> "pending"])
                /\ IF Validate(body.req) # ""
                   THEN /\ reply' = [Refuse("GenerateMockData", 0, StatusBadRequest,
                                            "Validation failed")
                                        EXCEPT !.message = Validate(body.req), !.req = body.req]
                        /\ UNCHANGED gens
                   ELSE /\ reply' = [NoReply EXCEPT !.handler = "GenerateMockData",
                                                    !.req = body.req]
                        /\ gens' = [gens EXCEPT ![g].pc = "processing",
                                                ![g].scenario = body.req.scenario,
                                                ![g].requestID = Len(requests) + 1]
        /\ UNCHANGED <<datasets, getter, openaiCalls>>
        /\ ApiFrame

\* POST /api/generate arrives: the body is parsed and validated.
Receive ==
    \E g \in Handlers : \E body \in Bodies :
        /\ gens[g].pc = "idle"
        /\ IF ~body.ok
           THEN /\ reply' = Refuse("GenerateMockData", 0, StatusBadRequest, "Invalid request body")
                /\ UNCHANGED gens
           ELSE IF Validate(body.req) # ""
           THEN /\ reply' = [Refuse("GenerateMockData", 0, StatusBadRequest, "Validation failed")
                                EXCEPT !.message = Validate(body.req), !.req = body.req]
                /\ UNCHANGED gens
           ELSE /\ Len(requests) + Cardinality({h \in Handlers : gens[h].pc = "insert"})
                      < MaxRequests
                /\ reply' = [NoReply EXCEPT !.handler = "GenerateMockData", !.req = body.req]
                /\ gens' = [gens EXCEPT ![g].pc = "insert", ![g].scenario = body.req.scenario]
        /\ UNCHANGED <<requests, datasets, getter, openaiCalls>>
        /\ ApiFrame

\* INSERT INTO generation_requests (...) VALUES ($1, $2, 'pending') RETURNING id.
\* The row keeps the columns the handlers read back: scenario and status.
InsertRequest ==
    \E g \in Handlers : \E ok \in BOOLEAN :
        /\ gens[g].pc = "insert"
        /\ IF ok
           THEN /\ requests' = Append(requests, [scenario |-> gens[g].scenario,
                                                 status |-> "pending"])
                /\ gens' = [gens EXCEPT ![g].pc = "processing", ![g].requestID = Len(requests) + 1]
                /\ reply' = NoReply
           ELSE /\ reply' = Refuse("GenerateMockData", 0, StatusInternalServerError, "Database error")
                /\ gens' = [gens EXCEPT ![g] = IdleGen]
                /\ UNCHANGED requests
        /\ UNCHANGED <<datasets, getter, openaiCalls>>
        /\ ApiFrame

\* UPDATE generation_requests SET status = 'processing': a failure is logged
UpdateProcessing ==
    \E g \in Handlers : \E ok \in BOOLEAN :
        /\ gens[g].pc = "processing"
        /\ requests' = IF ok THEN SetStatus(requests, gens[g].requestID, "processing") ELSE requests
        /\ gens' = [gens EXCEPT ![g].pc = "generate"]
        /\ reply' = NoReply
        /\ UNCHANGED <<datasets, getter, openaiCalls>>
        /\ ApiFrame

\* h.openaiService.GenerateMockData(...)
CallOpenAI ==
    \E g \in Handlers : \E completion \in Completions : \E r \in {OpenAIGenerate(completion)} :
        /\ gens[g].pc = "generate"
        /\ openaiCalls' = openaiCalls + 1
        /\ gens' = IF r.err # "" THEN [gens EXCEPT ![g].pc = "failed"]
                   ELSE [gens EXCEPT ![g].pc = "save", ![g].data = r.data,
                                     ![g].fieldNames = r.fieldNames]
        /\ reply' = NoReply
        /\ UNCHANGED <<requests, datasets, getter>>
        /\ ApiFrame

\* UPDATE generation_requests SET status = 'failed': its error is dropped
MarkFailed ==
    \E g \in Handlers : \E ok \in BOOLEAN :
        /\ gens[g].pc = "failed"
        /\ requests' = IF ok THEN SetStatus(requests, gens[g].requestID, "failed") ELSE requests
        /\ reply' = Refuse("GenerateMockData", gens[g].requestID, StatusInternalServerError,
                           "Failed to generate data")
        /\ gens' = [gens EXCEPT ![g] = IdleGen]
        /\ UNCHANGED <<datasets, getter, openaiCalls>>
        /\ ApiFrame

\* json.Marshal(data), then INSERT INTO mock_datasets (request_id, data,
\* field_names).  A nil map among the rows is written as an empty object.
SaveDataset ==
    \E g \in Handlers : \E ok \in BOOLEAN :
        /\ gens[g].pc = "save"
        /\ IF JsonUnsupported(RowsValue(gens[g].data))
           THEN /\ reply' = Refuse("GenerateMockData", gens[g].requestID,
                                   StatusInternalServerError, "Failed to serialize data")
                /\ gens' = [gens EXCEPT ![g] = IdleGen]
                /\ UNCHANGED datasets
           ELSE IF ok
           THEN /\ datasets' = Append(datasets,
                                      [requestID |-> gens[g].requestID,
                                       data |-> MarshalCompact(RowsValue(gens[g].data)),
                                       fieldNames |-> gens[g].fieldNames])
                /\ gens' = [gens EXCEPT ![g].pc = "completed"]
                /\ reply' = NoReply
           ELSE /\ reply' = Refuse("GenerateMockData", gens[g].requestID,
                                   StatusInternalServerError, "Failed to save dataset")
                /\ gens' = [gens EXCEPT ![g] = IdleGen]
                /\ UNCHANGED datasets
        /\ UNCHANGED <<requests, getter, openaiCalls>>
        /\ ApiFrame

\* UPDATE generation_requests SET status = 'completed' (a failure is
\* logged), then the response 201.
UpdateCompleted ==
    \E g \in Handlers : \E ok \in BOOLEAN :
        /\ gens[g].pc = "completed"
        /\ requests' = IF ok THEN SetStatus(requests, gens[g].requestID, "completed") ELSE requests
        /\ reply' = [NoReply EXCEPT !.handler = "GenerateMockData", !.id = gens[g].requestID,
                                    !.status = StatusCreated, !.state = "completed"]
        /\ gens' = [gens EXCEPT ![g] = IdleGen]
        /\ UNCHANGED <<datasets, getter, openaiCalls>>
        /\ ApiFrame


\* GET /api/data/:id, first query: SELECT scenario, status FROM
\* generation_requests WHERE id = $1.  (The query that fails is the one for
\* id 1: the response to a failed query is the same for every id.)
GetReadsRequest ==
    \E id \in Ids : \E ok \in BOOLEAN :
        /\ getter.pc = "idle"
        /\ ~ok => id = 1
        /\ IF ~ok
           THEN /\ reply' = Refuse("GetMockData", id, StatusInternalServerError, "Database error")
                /\ UNCHANGED getter
           ELSE IF id \notin DOMAIN requests
           THEN /\ reply' = Refuse("GetMockData", id, StatusNotFound, "Request not found")
                /\ UNCHANGED getter
           ELSE IF requests[id].status # "completed"
           THEN /\ reply' = [Refuse("GetMockData", id, StatusBadRequest, "Data not available")
                                EXCEPT !.state = requests[id].status]
                /\ UNCHANGED getter
           ELSE /\ reply' = NoReply
                /\ getter' = [pc |-> "dataset", id |-> id]
        /\ UNCHANGED <<requests, datasets, gens, openaiCalls>>
        /\ ApiFrame

\* GET /api/data/:id, second query: SELECT id, data, field_names, created_at
\* FROM mock_datasets WHERE request_id = $1, and the response.
GetReadsDataset ==
    \E ok \in BOOLEAN : \E found \in {DatasetsOf(getter.id)} :
    \E dec \in {DecodeRows(IF found = <<>> THEN <<>> ELSE found[1].data)} :
        /\ getter.pc = "dataset"
        /\ reply' =
              IF ~ok
              THEN Refuse("GetMockData", getter.id, StatusInternalServerError, "Database error")
              ELSE IF found = <<>>
              THEN Refuse("GetMockData", getter.id, StatusNotFound, "Dataset not found")
              ELSE IF ~dec.ok
              THEN Refuse("GetMockData", getter.id, StatusInternalServerError,
                          "Failed to parse data")
              ELSE [NoReply EXCEPT !.handler = "GetMockData", !.id = getter.id,
                                   !.status = StatusOK, !.hasData = TRUE,
                                   !.data = dec.data, !.fieldNames = found[1].fieldNames]
        /\ getter' = NoGetter
        /\ UNCHANGED <<requests, datasets, gens, openaiCalls>>
        /\ ApiFrame

\* GET /api/data/:id/export, the query: SELECT data, field_names FROM
\* mock_datasets WHERE request_id = $1 (failing for id 1, as above).
ExportReadsDataset ==
    \E id \in Ids : \E ok \in BOOLEAN : \E found \in {DatasetsOf(id)} :
        /\ ~ok => id = 1
        /\ stored' = IF ~ok THEN [status |-> "error", dataJSON |-> <<>>, fieldNames |-> NilSlice]
                     ELSE IF found = <<>> THEN NoStored
                     ELSE [status |-> "found", dataJSON |-> found[1].data,
                           fieldNames |-> found[1].fieldNames]
        /\ exportId' = id
        /\ query' = NoQuery
        /\ call' = NoCall
        /\ resp' = NoResponse
        /\ reply' = NoReply
        /\ UNCHANGED <<goarch, cellVars, exportVars, threads>>
        /\ UNCHANGED <<requests, datasets, gens, getter, openaiCalls>>

\* GET /api/data/:id/export, the rest of the handler, on what was read; the
\* requests are those without a table parameter and with the format csv,
\* markdown or sql (csv when no dataset was read: the response is the same
\* for every format).
ExportResponds ==
    \E dec \in {DecodeRows(stored.dataJSON)} :
    \E format \in {kCsv, kMarkdown, kSql} :
    \E q \in {[format |-> Param(format), table |-> Absent]} :
    \E h \in {Handle(q, dec)} :
        /\ exportId # 0
        /\ stored.status # "found" => format = kCsv
        /\ query' = q
        /\ call' = h.call
        /\ resp' = h.resp
        /\ UNCHANGED <<goarch, cellVars, exportVars, stored, threads, apiVars>>

ApiNext ==
    \/ Receive
    \/ InsertRequest
    \/ UpdateProcessing
    \/ CallOpenAI
    \/ MarkFailed
    \/ SaveDataset
    \/ UpdateCompleted
    \/ GetReadsRequest
    \/ GetReadsDataset
    \/ ExportReadsDataset
    \/ ExportResponds

ApiSpec == ApiInit /\ [][ApiNext]_vars


(***************************************************************************)
(* Claims about the generation API (checked under ApiSpec).                *)
(***************************************************************************)
Terminal == {"completed", "failed"}

\* The response of the latest step, when GenerateMockData sent it.
Generation == reply.handler = "GenerateMockData" /\ reply.status # 0

\* C21: Validate returns no error exactly when the scenario is non-empty
\* and 1 <= row_count <= 1000, ErrInvalidScenario whenever the scenario is
\* empty, and ErrInvalidRowCount whenever the scenario is non-empty and
\* row_count is below 1 or above 1000: a request refused by validation was
\* invalid and carries the error of its case, and a request that passed
\* validation was valid.
C21_Validate ==
    /\ (Generation /\ reply.error = "Validation failed") =>
          /\ reply.status = 400
          /\ reply.req.scenario = <<>> => reply.message = "scenario description is required"
          /\ reply.req.scenario # <<>> =>
                /\ reply.req.rowCount < 1 \/ reply.req.rowCount > 1000
                /\ reply.message = "row count must be between 1 and 1000"
    /\ (reply.handler = "GenerateMockData" /\ reply.status = 0) =>
          /\ reply.req.scenario # <<>>
          /\ reply.req.rowCount >= 1
          /\ reply.req.rowCount <= 1000
          /\ \E g \in Handlers : gens[g].pc = "insert" /\ gens[g].scenario = reply.req.scenario

\* A request with row_count 1001 is refused with ErrInvalidRowCount, after a
\* request that passed validation was inserted.
C21_Witness ==
    /\ Generation
    /\ reply.error = "Validation failed"
    /\ reply.req = [scenario |-> Test, rowCount |-> 1001]
    /\ reply.message = ErrInvalidRowCount
    /\ Len(requests) = 1

\* C22: when the generation step fails, GenerateMockData sets the stored
\* status of the request to failed, stores no dataset for it and responds
\* 500.
C22_GenerationFailure ==
    (Generation /\ reply.error = "Failed to generate data") =>
        /\ reply.status = 500
        /\ requests[reply.id].status = "failed"
        /\ DatasetsOf(reply.id) = <<>>

\* C23: every request GenerateMockData has inserted has a terminal stored
\* status, completed or failed, when the handler has responded.
C23_TerminalOnReturn ==
    (Generation /\ reply.id # 0) => requests[reply.id].status \in Terminal

\* C24: a request whose stored status is completed has a dataset stored.
C24_CompletedHasDataset ==
    \A id \in DOMAIN requests :
        requests[id].status = "completed" => DatasetsOf(id) # <<>>

\* One request is completed and has its dataset, another was inserted and
\* has none.
C24_Witness ==
    /\ Len(requests) = 2
    /\ requests[1].status = "completed"
    /\ Len(DatasetsOf(1)) = 1
    /\ DatasetsOf(2) = <<>>
    /\ requests[2].status = "processing"

\* C25: whenever POST /api/generate responds 201 with status completed, the
\* stored status of the request is completed and a dataset is stored for
\* it (so that GET /api/data/:id for the id finds the data).
C25_CreatedIsCompleted ==
    (Generation /\ reply.status = 201) =>
        /\ reply.state = "completed"
        /\ requests[reply.id].status = "completed"
        /\ DatasetsOf(reply.id) # <<>>

\* C26: a request is created pending; every change of its stored status
\* is pending to processing, processing to completed or processing to
\* failed; completed and failed never change; none returns to pending.
C26_StatusTransitions ==
    [][/\ \A id \in (DOMAIN requests') \ (DOMAIN requests) : requests'[id].status = "pending"
       /\ \A id \in DOMAIN requests :
             /\ id \in DOMAIN requests'
             /\ requests'[id].status # requests[id].status =>
                   <<requests[id].status, requests'[id].status>> \in
                       {<<"pending", "processing">>, <<"processing", "completed">>,
                        <<"processing", "failed">>}]_vars

\* C27: the contents of a dataset are returned, by GetMockData or by
\* ExportMockData, only for a request whose stored status is completed; an
\* unknown request is answered 404.
C27_DataOnlyWhenCompleted ==
    /\ reply.hasData => (reply.id \in DOMAIN requests /\ requests[reply.id].status = "completed")
    /\ (reply.handler = "GetMockData" /\ reply.id \notin DOMAIN requests /\ reply.status # 500) =>
          reply.status = 404
    /\ (resp.status # 0 /\ exportId \notin DOMAIN requests /\ stored.status # "error") =>
          resp.status = 404
    /\ resp.body # NilSlice =>
          (exportId \in DOMAIN requests /\ requests[exportId].status = "completed")

\* C28: every dataset GenerateMockData has stored has at least one row and
\* at least one field name, so that its export as csv, markdown or sql
\* never fails with the empty-dataset error.
C28_StoredDatasetNotEmpty ==
    /\ \A n \in DOMAIN datasets :
          /\ \E dec \in {DecodeRows(datasets[n].data)} : dec.ok /\ Len(dec.data.elems) >= 1
          /\ Len(datasets[n].fieldNames.elems) >= 1
    /\ (stored.status = "found" /\ call.name \in {"ToCSV", "ToMarkdownTable", "ToSQL"}) =>
          (call.err = "" /\ resp.status = 200 /\ ~resp.body.isNil)

\* The dataset of two rows, stored through the API, exported as csv.
C28_Witness ==
    /\ exportId = 1
    /\ stored.status = "found"
    /\ Len(DecodeRows(stored.dataJSON).data.elems) = 2
    /\ call.name = "ToCSV"
    /\ resp.status = 200

\* C29: a POST /api/generate answered 400 (body not parsed, or validation
\* failed) changes nothing stored: no request row is inserted, no dataset
\* is stored, the OpenAI service is not called, and the handler is over.
C29_RefusedChangesNothing ==
    [][(reply' # reply /\ reply'.handler = "GenerateMockData" /\ reply'.status = 400) =>
          /\ reply'.error \in {"Invalid request body", "Validation failed"}
          /\ requests' = requests
          /\ datasets' = datasets
          /\ openaiCalls' = openaiCalls
          /\ gens' = gens]_vars

\* A request with row_count 0 refused while a request and its dataset are
\* stored.
C29_Witness ==
    /\ Generation
    /\ reply.status = 400
    /\ reply.error = "Validation failed"
    /\ reply.req = [scenario |-> Test, rowCount |-> 0]
    /\ Len(requests) = 1
    /\ Len(datasets) = 1
    /\ openaiCalls = 1


====
